---- MODULE Spec2Model ----
(***************************************************************************)
(* A model of the virtual-tree reconciliation engine bundled with          *)
(* rummikub-xp (opr.Toolkit): the keyed-list Reconciler, the Diff engine,  *)
(* the Patch applier, the Lifecycle dispatcher, the command Dispatcher and *)
(* the module loader, and of the league and token services of the server.  *)
(*                                                                         *)
(* The specifications of the module:                                       *)
(*   SpecMoves     Reconciler.calculateMoves applied to bounded key lists, *)
(*                 followed by the replay of the returned moves;           *)
(*   Spec          update cycles of one root component over a node heap;   *)
(*   SpecDispatch  update cycles of a root whose lifecycle hooks dispatch  *)
(*                 commands, with the deferred flush of the queue;         *)
(*   SpecElement   an element diffed against a second description and     *)
(*                 patched, then diffed against the first and patched;     *)
(*   SpecChildren  replace-child, move-child and remove-child patches      *)
(*                 applied to an element, for children and other nodes;    *)
(*   SpecList      an element with a list of children diffed against a     *)
(*                 second list and patched, one patch at a time;           *)
(*   SpecLeague    League.calculate applied to bounded lists of players;   *)
(*   SpecNested    update cycles of a root whose tree holds a nested root, *)
(*                 a web component with a dispatcher of its own;           *)
(*   SpecThrow     update cycles of a root one hook of which throws;       *)
(*   SpecListeners an element with listeners through a series of updates;  *)
(*   SpecLoader    calls of loader.preload on one module loader;           *)
(*   SpecTokens    signIn and getUserByToken on the tokens table of the    *)
(*                 server.                                                 *)
(***************************************************************************)
EXTENDS Integers, Sequences, FiniteSets, TLC

VARIABLES
  \* ---- SpecMoves: one call of Reconciler.calculateMoves and its replay
  source,      \* the source key list handed to calculateMoves
  target,      \* the target key list handed to calculateMoves
  favored,     \* the favoredToMove argument (NoKey when not given)
  moves,       \* the returned move list
  work,        \* a copy of source the moves are made on, one by one
  pos,         \* -1 before the call; afterwards the number of moves made
  \* ---- Spec: a root component, its node heap and its update cycles
  nodes,       \* the heap of virtual nodes; a node's id is its index
  state,       \* root.state
  mode,        \* dispatcher.mode
  phase,       \* position of the running update cycle
  patches,     \* diff.patches of the running cycle
  idx,         \* the loop index inside the current phase
  log,         \* events of the running (or last) cycle, in order
  hist,        \* per node: the lifecycle hooks invoked on it, in order
  rendered,    \* ids of the components rendered by the last diff
  cycles,      \* number of commands dispatched from outside so far
  \* ---- the Dispatcher of the root
  queue,       \* dispatcher.queue: the commands queued by hooks
  level,       \* the level counter of the command wrapper
  timers,      \* the tasks scheduled with setTimeout, each a list of commands
  pending,     \* the commands the running flush task has still to execute
  calls,       \* the calls of Dispatcher.execute in progress, outermost first
  hooked,      \* the hook of the application that dispatches a command
  thrown,      \* the error thrown last, "" when none was
  cascaded,    \* number of commands executed by flush tasks so far
  dropped,     \* number of commands the wrapper has dropped in ignore mode
  raisedAt,    \* cycles when the wrapper threw its error last, -1 before
  resolved,    \* number of calls of command.done() so far
  \* ---- an element updated on its own
  origin,      \* the description the element was created from
  \* ---- SpecLeague: one call of League.calculate
  players,     \* the list of players handed to calculate
  returned,    \* the list the call has returned
  calculated,  \* whether the call has returned
  \* ---- SpecLoader: the module loader
  ready,        \* loader.ready: the promise the next preload waits for
  released,     \* the promises of waitForLoader that are resolved
  loadPromises, \* per module id: the promise preload has stored for it
  registry,     \* per module id: whether it has exports, whether it isLoaded
  preloads,     \* the calls of loader.preload, in call order
  \* ---- SpecTokens: the tokens table of the server
  clock,        \* NOW() of the database
  rows,         \* per token: last_used_on of its row
  lookups       \* the calls of getUserByToken, in the order of their SELECT

movesVars == <<source, target, favored, moves, work, pos>>
dispVars ==
  <<queue, level, timers, pending, calls, hooked, thrown, cascaded, dropped,
    raisedAt, resolved>>
treeVars ==
  <<nodes, state, mode, phase, patches, idx, log, hist, rendered, cycles, dispVars,
    origin>>
leagueVars == <<players, returned, calculated>>
loaderVars == <<ready, released, loadPromises, registry, preloads>>
tokenVars == <<clock, rows, lookups>>
vars == <<movesVars, treeVars, leagueVars, loaderVars, tokenVars>>

-----------------------------------------------------------------------------
(* Bounds of the model. *)

\* keys available to the key lists of SpecMoves
MaxKeys == 4
\* longest key list of SpecMoves
MaxLen == 4
\* keys available to the items of a root state
MaxItemKeys == 2
\* most items in a root state
MaxItems == 2
\* largest value of the v prop
MaxV == 2
\* commands dispatched after the mount
MaxCycles == 2
\* commands dispatched after the mount of a root whose components have a
\* hook that dispatches
MaxCascade == 3
\* commands dispatched after the mount of a root whose own hook dispatches
MaxSeries == 5

NoKey == 0
Undefined == -1

-----------------------------------------------------------------------------
(* Array helpers with the semantics of Array.prototype (0-based indexes). *)

Min(a, b) == IF a < b THEN a ELSE b

Max(a, b) == IF a > b THEN a ELSE b

\* items.splice(start, deleteCount, ...ins); a negative start counts from the end
Splice(items, start, deleteCount, ins) ==
  LET s == IF start < 0 THEN Max(Len(items) + start, 0) ELSE Min(start, Len(items))
      d == Min(deleteCount, Len(items) - s)
  IN SubSeq(items, 1, s) \o ins \o SubSeq(items, s + d + 1, Len(items))

\* items.indexOf(item)
IndexOf(items, item) ==
  IF \E i \in 1..Len(items) : items[i] = item
    THEN (CHOOSE i \in 1..Len(items) :
            items[i] = item /\ \A j \in 1..(i - 1) : items[j] # item) - 1
    ELSE -1

Includes(items, item) == \E i \in 1..Len(items) : items[i] = item

\* a reversal that leaves the order
Reverse_InOrder(items) == items

Reverse(items) == [i \in 1..Len(items) |-> items[Len(items) + 1 - i]]

\* items[index] for a 0-based index; Undefined outside the array
At(items, index) ==
  IF index >= 0 /\ index < Len(items) THEN items[index + 1] ELSE Undefined

-----------------------------------------------------------------------------
(* Reconciler *)

INSERT == "insert"
MOVE == "move"
REMOVE == "remove"

\* Move.insert(item, at)
MoveInsert(item, at) ==
  [name |-> INSERT, item |-> item, at |-> at, from |-> Undefined, to |-> Undefined]

\* Move.move(item, from, to)
MoveMove(item, from, to) ==
  [name |-> MOVE, item |-> item, at |-> Undefined, from |-> from, to |-> to]

\* Move.remove(item, at)
MoveRemove(item, at) ==
  [name |-> REMOVE, item |-> item, at |-> at, from |-> Undefined, to |-> Undefined]

\* move.make(items): the closure each Move is constructed with
Make(move, items) ==
  CASE move.name = INSERT -> Splice(items, move.at, 0, <<move.item>>)
    [] move.name = MOVE ->
         Splice(Splice(items, move.from, 1, <<>>), move.to, 0, <<move.item>>)
    [] move.name = REMOVE -> Splice(items, move.at, 1, <<>>)

\* a comparator that never reports equal keys
comparator_NeverEqual(a, b) == IF a.key > b.key THEN 1 ELSE -1

\* Reconciler.comparator(a, b)
comparator(a, b) ==
  IF a.key = b.key THEN 0 ELSE IF a.key > b.key THEN 1 ELSE -1

\* source.map(createItem)
CreateItems(keys) == [i \in 1..Len(keys) |-> [key |-> keys[i], index |-> i - 1]]

sortByIndex(foo, bar) == foo.index - bar.index

\* the comparison function handed to Array.prototype.sort
Compare(a, b, by) == IF by = "key" THEN comparator(a, b) ELSE sortByIndex(a, b)

\* insertion of one item into a sorted list, after its equals (stable)
RECURSIVE InsertSorted(_, _, _)
InsertSorted(sorted, item, by) ==
  IF sorted = <<>> THEN <<item>>
  ELSE IF Compare(item, sorted[1], by) < 0 THEN <<item>> \o sorted
  ELSE <<sorted[1]>> \o InsertSorted(Tail(sorted), item, by)

\* Array.prototype.sort(cmp), which is stable
RECURSIVE SortBy(_, _)
SortBy(items, by) ==
  IF items = <<>> THEN <<>>
  ELSE InsertSorted(SortBy(SubSeq(items, 1, Len(items) - 1), by),
                    items[Len(items)], by)

\* the merge scan of calculateMoves over the two lists sorted by key
RECURSIVE MergeScan(_, _, _, _)
MergeScan(before, after, removed, inserted) ==
  IF before = <<>> /\ after = <<>> THEN [removed |-> removed, inserted |-> inserted]
  ELSE IF before = <<>> THEN [removed |-> removed, inserted |-> inserted \o after]
  ELSE IF after = <<>> THEN [removed |-> removed \o before, inserted |-> inserted]
  ELSE LET result == comparator(after[1], before[1])
       IN IF result = 0 THEN MergeScan(Tail(before), Tail(after), removed, inserted)
          ELSE IF result = 1
            THEN MergeScan(Tail(before), after, Append(removed, before[1]), inserted)
            ELSE MergeScan(before, Tail(after), removed, Append(inserted, after[1]))

\* the moves made on a list, in order
RECURSIVE MakeAll(_, _)
MakeAll(ms, items) ==
  IF ms = <<>> THEN items ELSE MakeAll(Tail(ms), Make(ms[1], items))

\* moveItemIfNeeded(index) of calculateIndexChanges, on acc = [source, moves]
moveItemIfNeeded(acc, tgt, index) ==
  LET item == At(tgt, index)
  IN IF At(acc.source, index) # item
       THEN LET from == IndexOf(acc.source, item)
                move == MoveMove(item, from, index)
            IN [source |-> Make(move, acc.source), moves |-> Append(acc.moves, move)]
       ELSE acc

RECURSIVE ScanForward(_, _, _)
ScanForward(acc, tgt, i) ==
  IF i < Len(tgt) THEN ScanForward(moveItemIfNeeded(acc, tgt, i), tgt, i + 1) ELSE acc

RECURSIVE ScanReversed(_, _, _)
ScanReversed(acc, tgt, i) ==
  IF i >= 0 THEN ScanReversed(moveItemIfNeeded(acc, tgt, i), tgt, i - 1) ELSE acc

\* calculateIndexChanges(source, target, reversed): the alignment moves
calculateIndexChanges(src, tgt, reversed) ==
  IF reversed
    THEN ScanReversed([source |-> src, moves |-> <<>>], tgt, Len(tgt) - 1).moves
    ELSE ScanForward([source |-> src, moves |-> <<>>], tgt, 0).moves

\* removals made lowest source index first
Removals_Ascending(src, tgt) ==
  LET scan == MergeScan(SortBy(CreateItems(src), "key"),
                        SortBy(CreateItems(tgt), "key"), <<>>, <<>>)
      removed == SortBy(scan.removed, "index")
  IN [i \in 1..Len(removed) |-> MoveRemove(removed[i].key, removed[i].index)]

\* the removals of calculateMoves: highest source index first
Removals(src, tgt) ==
  LET scan == MergeScan(SortBy(CreateItems(src), "key"),
                        SortBy(CreateItems(tgt), "key"), <<>>, <<>>)
      removed == Reverse(SortBy(scan.removed, "index"))
  IN [i \in 1..Len(removed) |-> MoveRemove(removed[i].key, removed[i].index)]

\* insertions made highest target index first
Insertions_Descending(src, tgt) ==
  LET scan == MergeScan(SortBy(CreateItems(src), "key"),
                        SortBy(CreateItems(tgt), "key"), <<>>, <<>>)
      inserted == Reverse(SortBy(scan.inserted, "index"))
  IN [i \in 1..Len(inserted) |-> MoveInsert(inserted[i].key, inserted[i].index)]

\* the insertions of calculateMoves: ascending target index
Insertions(src, tgt) ==
  LET scan == MergeScan(SortBy(CreateItems(src), "key"),
                        SortBy(CreateItems(tgt), "key"), <<>>, <<>>)
      inserted == SortBy(scan.inserted, "index")
  IN [i \in 1..Len(inserted) |-> MoveInsert(inserted[i].key, inserted[i].index)]

\* the forward alignment taken whatever the reversed one is
ChooseAlignment_Forward(defaultMoves, alternativeMoves, favoredToMove) == defaultMoves

\* the reversed alignment taken only when it is strictly shorter
ChooseAlignment_Strict(defaultMoves, alternativeMoves, favoredToMove) ==
  IF (Len(defaultMoves) > 1
      \/ (favoredToMove # NoKey /\ Len(defaultMoves) = 1
          /\ defaultMoves[1].item # favoredToMove))
     /\ Len(alternativeMoves) < Len(defaultMoves)
    THEN alternativeMoves
    ELSE defaultMoves

\* the reversed alignment taken without comparing the lengths
ChooseAlignment_NoLengthCheck(defaultMoves, alternativeMoves, favoredToMove) ==
  IF Len(defaultMoves) > 1
     \/ (favoredToMove # NoKey /\ Len(defaultMoves) = 1
         /\ defaultMoves[1].item # favoredToMove)
    THEN alternativeMoves
    ELSE defaultMoves

\* the choice between the forward (default) and the reversed (alternative)
\* alignment at the end of calculateMoves
ChooseAlignment(defaultMoves, alternativeMoves, favoredToMove) ==
  IF (Len(defaultMoves) > 1
      \/ (favoredToMove # NoKey /\ Len(defaultMoves) = 1
          /\ defaultMoves[1].item # favoredToMove))
     /\ Len(alternativeMoves) <= Len(defaultMoves)
    THEN alternativeMoves
    ELSE defaultMoves

\* Reconciler.calculateMoves(source, target, favoredToMove)
calculateMoves(src, tgt, favoredToMove) ==
  LET edits == Removals(src, tgt) \o Insertions(src, tgt)
      result == MakeAll(edits, src)
  IN IF result = tgt THEN edits
     ELSE edits \o ChooseAlignment(calculateIndexChanges(result, tgt, FALSE),
                                   calculateIndexChanges(result, tgt, TRUE),
                                   favoredToMove)

-----------------------------------------------------------------------------
(* Descriptions *)

\* props of a description; v = Undefined and no items when it has none
Props(items, v) == [items |-> items, v |-> v, beingDragged |-> FALSE]
NoProps == Props(<<>>, Undefined)

\* description.custom of an element without custom attributes and listeners
NoCustom == [attrs |-> <<>>, listeners |-> <<>>]

\* new ComponentDescription(component) with the props assigned by Template
ComponentDescription(component, key, props) ==
  [name |-> "", key |-> key, attrs |-> <<>>, listeners |-> <<>>,
   component |-> component, props |-> props, type |-> "component", text |-> "",
   children |-> <<>>, class |-> "", style |-> <<>>,
   dataset |-> <<>>, properties |-> <<>>, custom |-> NoCustom]

\* new ElementDescription(name) with key and children assigned by Template;
\* class, style, attrs, listeners, dataset, properties and custom are assigned
\* by Template.assignPropsToElement.  A map is the list of its entries
\* [key, value] in the order of Object.keys; a listener is a number.
ElementDescription(name, key, children) ==
  [name |-> name, key |-> key, attrs |-> <<>>, listeners |-> <<>>,
   component |-> "", props |-> NoProps, type |-> "element", text |-> "",
   children |-> children, class |-> "", style |-> <<>>,
   dataset |-> <<>>, properties |-> <<>>, custom |-> NoCustom]

\* new CommentDescription(text)
CommentDescription(text) ==
  [name |-> "", key |-> NoKey, attrs |-> <<>>, listeners |-> <<>>,
   component |-> "", props |-> NoProps, type |-> "comment", text |-> text,
   children |-> <<>>, class |-> "", style |-> <<>>,
   dataset |-> <<>>, properties |-> <<>>, custom |-> NoCustom]

\* new TextDescription(text)
TextDescription(text) ==
  [name |-> "", key |-> NoKey, attrs |-> <<>>, listeners |-> <<>>,
   component |-> "", props |-> NoProps, type |-> "text", text |-> text,
   children |-> <<>>, class |-> "", style |-> <<>>,
   dataset |-> <<>>, properties |-> <<>>, custom |-> NoCustom]

\* the value of an absent description
NoDescription ==
  [name |-> "", key |-> NoKey, attrs |-> <<>>, listeners |-> <<>>,
   component |-> "", props |-> NoProps, type |-> "none", text |-> "",
   children |-> <<>>, class |-> "", style |-> <<>>,
   dataset |-> <<>>, properties |-> <<>>, custom |-> NoCustom]

\* description.isCompatible(other): same variant, and the same component
\* class (component), tag name (element) or text (comment, text)
isCompatible(a, b) ==
  /\ a.type = b.type
  /\ CASE a.type = "component" -> a.component = b.component
       [] a.type = "element" -> a.name = b.name
       [] OTHER -> a.text = b.text

\* a comparison that finds any two values different
deepEqual_Never(current, next) == FALSE

\* Diff.deepEqual(current, next) on plain data: states, props and descriptions
\* hold numbers, strings, arrays and plain objects only, for which the
\* recursive comparison is structural equality
deepEqual(current, next) == current = next

-----------------------------------------------------------------------------
(* The application: one root component class R, three component classes and *)
(* a web component class W that R nests.                                     *)
(* R renders a div holding one keyed component per item of its state; A     *)
(* renders a span around a B, or a B alone; B renders nothing or an element; *)
(* K renders an element whose key follows its props; W renders nothing or an *)
(* element.                                                                  *)

\* the state a root has before its first command
NoState == [present |-> FALSE, items |-> <<>>, v |-> 0]

\* ComponentClass.displayName
displayName(component) == component

\* component.render() for the props handed over by Renderer.render
renderTemplate(component, props) ==
  CASE component = "R" ->
         ElementDescription("div", NoKey,
           [i \in 1..Len(props.items) |->
              ComponentDescription(props.items[i].cls, props.items[i].key,
                                   Props(<<>>, props.v))])
    [] component = "A" ->
         IF props.v = 2
           THEN ComponentDescription("B", NoKey, Props(<<>>, 1))
           ELSE ElementDescription("span", NoKey,
                  <<ComponentDescription("B", NoKey, Props(<<>>, props.v))>>)
    [] component = "B" ->
         IF props.v = 0
           THEN NoDescription
           ELSE ElementDescription("i", NoKey, <<TextDescription("x")>>)
    [] component = "K" -> ElementDescription("p", props.v + 1, <<>>)
    [] component = "W" ->
         IF props.v = 0
           THEN NoDescription
           ELSE ElementDescription("b", NoKey, <<TextDescription("w")>>)

\* Renderer.render(component, props, children): the description of the
\* rendered template, a comment named after the class when it renders nothing
render(component, props) ==
  LET description == renderTemplate(component, props)
  IN IF description.type # "none" THEN description
     ELSE CommentDescription(displayName(component))

\* ComponentClass.prototype instanceof opr.Toolkit.WebComponent
isWebComponent(component) == component \in {"R", "W"}

Hooks ==
  {"onCreated", "onAttached", "onPropsReceived", "onUpdated", "onDetached",
   "onDestroyed"}

\* component.hasOwnMethod(method): every class of the application defines
\* all six hooks
hasOwnMethod(component, method) == method \in Hooks

-----------------------------------------------------------------------------
(* Virtual nodes *)

NoNode == 0

\* utils.getAttributeName(key) on the attribute names of the applications:
\* an aria name gets its dash, every other name is lower-cased
getAttributeName(key) ==
  CASE key = "tabIndex" -> "tabindex"
    [] key = "ariaLabel" -> "aria-label"
    [] OTHER -> key

\* utils.getEventName(key) on the event names of the applications
getEventName(key) ==
  CASE key = "onDoubleClick" -> "dblclick"
    [] key = "onClick" -> "click"
    [] key = "onInput" -> "input"

\* object[key] = value and delete object[key] on a DOM object held as the
\* set of its entries; setAttribute and removeAttribute act alike
Put(object, key, value) ==
  {e \in object : e.key # key} \cup {[key |-> key, value |-> value]}
Drop(object, key) == {e \in object : e.key # key}

\* the loops of Renderer.createElement over Object.entries(map); the standard
\* attributes are named by getAttributeName, the custom ones as they are
RECURSIVE PutAll(_, _, _)
PutAll(object, map, isCustom) ==
  IF map = <<>> THEN object
  ELSE PutAll(Put(object,
                  IF isCustom THEN map[1].key ELSE getAttributeName(map[1].key),
                  map[1].value),
              Tail(map), isCustom)

\* no DOM node: the ref of a component is the ref of its content.
\* childNodes lists the DOM nodes below a DOM element, each named by the
\* virtual node it was created for.
NoRef ==
  [present |-> FALSE, className |-> "", style |-> {}, attributes |-> {},
   dataset |-> {}, listeners |-> {}, properties |-> {}, childNodes |-> <<>>]

\* document.createComment and document.createTextNode
createNode == [NoRef EXCEPT !.present = TRUE]

\* Renderer.createElement(description): the class name, the style, the
\* listeners by event name, the attributes, the data attributes and the
\* properties of the new DOM element, the custom attributes and listeners last
createElement(description) ==
  [present |-> TRUE,
   className |-> description.class,
   style |-> PutAll({}, description.style, TRUE),
   listeners |->
     {[key |-> getEventName(description.listeners[i].key),
       value |-> description.listeners[i].value] :
        i \in 1..Len(description.listeners)}
       \cup {description.custom.listeners[i] :
               i \in 1..Len(description.custom.listeners)},
   attributes |-> PutAll(PutAll({}, description.attrs, FALSE),
                         description.custom.attrs, TRUE),
   dataset |-> PutAll({}, description.dataset, TRUE),
   properties |-> PutAll({}, description.properties, TRUE),
   childNodes |-> <<>>]

\* the fields a constructor of core/nodes sets; a Component is constructed
\* with attachDOM = true and is initialized at once, a WebComponent is not.
\* The fields state and pendingDescription are those of a nested
\* WebComponent (the state of the root of the application is the variable
\* state); own lists the hooks that the update cycles of the dispatcher of
\* a nested WebComponent, and the destruction of its custom element, have
\* invoked.
NewNode(nodeType, description, parentNode) ==
  [nodeType |-> nodeType, description |-> description, key |-> description.key,
   parentNode |-> parentNode, children |-> <<>>, content |-> NoNode,
   isInitialized |-> (nodeType = "component"),
   state |-> NoState, pendingDescription |-> NoDescription, own |-> <<>>,
   ref |-> IF nodeType = "element" THEN createElement(description)
           ELSE IF nodeType \in {"comment", "text"} THEN createNode
           ELSE NoRef]

isComponent(node) == node.nodeType \in {"component", "root"}
isRoot(node) == node.nodeType = "root"
isElement(node) == node.nodeType = "element"

RECURSIVE domOf(_, _)
\* node.ref, as the virtual node the DOM node was created for: the ref
\* getter of Component returns this.content.ref, a WebComponent holds its
\* custom element
domOf(heap, node) ==
  IF heap[node].nodeType = "component" THEN domOf(heap, heap[node].content) ELSE node

\* parent.insertBefore(node, reference): before the reference, at the end
\* for null or undefined; a reference that is not a child node throws and
\* leaves the child nodes as they are
insertBefore(childNodes, node, reference) ==
  IF reference = NoNode THEN Append(childNodes, node)
  ELSE IF ~Includes(childNodes, reference) THEN childNodes
  ELSE Splice(childNodes, IndexOf(childNodes, reference), 0, <<node>>)

\* parent.removeChild(node) on the list of child nodes; a node that is not
\* a child node throws and leaves the child nodes as they are
withoutNode(childNodes, node) ==
  IF ~Includes(childNodes, node) THEN childNodes
  ELSE Splice(childNodes, IndexOf(childNodes, node), 1, <<>>)

\* node.replaceWith(other): in the child nodes of the parent of the DOM
\* node, if it has one
replaceWith(heap, node, other) ==
  [n \in 1..Len(heap) |->
     [heap[n] EXCEPT !.ref.childNodes =
        [i \in 1..Len(heap[n].ref.childNodes) |->
           IF heap[n].ref.childNodes[i] = node THEN other
           ELSE heap[n].ref.childNodes[i]]]]

\* element.children: the child nodes that are elements
elementChildren(heap, childNodes) ==
  LET Test(n) == heap[n].nodeType \in {"element", "root"}
  IN SelectSeq(childNodes, Test)

RECURSIVE Subtree(_, _)
\* a node with everything below it: the content of a component, the children
\* of an element
Subtree(heap, node) ==
  {node}
    \cup (IF heap[node].content # NoNode THEN Subtree(heap, heap[node].content) ELSE {})
    \cup UNION {Subtree(heap, heap[node].children[i]) :
                  i \in 1..Len(heap[node].children)}

\* a diff in progress: the heap, the patches added so far, the components
\* rendered so far, the node created last and the error thrown, if any
NewDiff(heap) ==
  [nodes |-> heap, patches |-> <<>>, rendered |-> <<>>, id |-> NoNode, error |-> ""]

\* component.content = the node created last, in createComponent
WithContent(inner, id) == [inner EXCEPT !.nodes[id].content = inner.id, !.id = id]

\* the node created last as the next child of an element, in createChildren
WithChild(made, parent) == [made EXCEPT !.nodes[parent].children = Append(@, made.id)]

RECURSIVE rootNode(_, _)
\* the rootNode getter of VirtualNode, NoNode for parent && parent.rootNode
\* without a parent
rootNode(heap, node) ==
  IF node = NoNode THEN NoNode
  ELSE IF isRoot(heap[node]) THEN node
  ELSE rootNode(heap, heap[node].parentNode)

\* VirtualDOM.createWebComponent(description, parent && parent.rootNode)
\* for a nested root: the WebComponent constructor leaves the root
\* uninitialized, with a comment named after the class as its content
\* (createPlaceholder) and a custom element as its ref, whose constructor
\* calls root.init(); init() goes on once the initial state is resolved
createWebComponent(diff, description, parent) ==
  LET id == Len(diff.nodes) + 1
  IN [diff EXCEPT
        !.nodes = @ \o
          <<[NewNode("root", description, rootNode(diff.nodes, parent))
               EXCEPT !.content = id + 1, !.ref = createNode],
            NewNode("comment", CommentDescription(displayName(description.component)),
                    NoNode)>>,
        !.id = id]

\* VirtualNode.attachChildren() at the end of the constructor of the
\* element id: this.ref.appendChild(child.ref) for each child
attachChildren(made, id) ==
  [made EXCEPT !.id = id,
               !.nodes[id].ref.childNodes =
                  [i \in 1..Len(made.nodes[id].children) |->
                     domOf(made.nodes, made.nodes[id].children[i])]]

RECURSIVE createFromDescription(_, _, _)
RECURSIVE createChildren(_, _, _, _)

\* VirtualDOM.createFromDescription(description, parent, context) with the
\* constructors it runs: createComponent renders the new component and
\* creates its content, VirtualElement creates its children
createFromDescription(diff, description, parent) ==
  LET id == Len(diff.nodes) + 1
  IN CASE description.type = "component" /\ isWebComponent(description.component) ->
            createWebComponent(diff, description, parent)
       [] description.type = "component" ->
            LET made == [diff EXCEPT
                           !.nodes = Append(@, NewNode("component", description, parent)),
                           !.rendered = Append(@, id)]
            IN WithContent(
                 createFromDescription(
                   made, render(description.component, description.props), id),
                 id)
       [] description.type = "element" ->
            LET made == [diff EXCEPT
                           !.nodes = Append(@, NewNode("element", description, parent))]
            IN attachChildren(createChildren(made, description.children, id, 1), id)
       [] OTHER ->
            [diff EXCEPT
               !.nodes = Append(@, NewNode(description.type, description, parent)),
               !.id = id]

\* VirtualNode.createChildren: description.children.map(createChild)
createChildren(diff, descriptions, parent, i) ==
  IF i > Len(descriptions) THEN diff
  ELSE createChildren(
         WithChild(createFromDescription(diff, descriptions[i], parent), parent),
         descriptions, parent, i + 1)

-----------------------------------------------------------------------------
(* Patches *)

INIT_ROOT_COMPONENT == "init-root-component"
UPDATE_NODE == "update-node"
INSERT_CHILD == "insert-child"
REPLACE_CHILD == "replace-child"
MOVE_CHILD == "move-child"
REMOVE_CHILD == "remove-child"
SET_CONTENT == "set-content"

\* new Patch(def): the fields the factory methods below assign
Patch(type) ==
  [type |-> type, root |-> NoNode, node |-> NoNode, child |-> NoNode,
   parent |-> NoNode, at |-> Undefined, from |-> Undefined, to |-> Undefined,
   description |-> NoDescription, prevDescription |-> NoDescription,
   target |-> NoNode, name |-> "", value |-> Undefined, removed |-> Undefined,
   isCustom |-> FALSE]

\* the patches of one key of a map and Patch.setClassName: name is the
\* attribute, property, key, event or class name, value the value or listener
\* set or added, removed the listener removed
KeyPatch(type, name, value, removed, to, isCustom) ==
  [Patch(type) EXCEPT !.name = name, !.value = value, !.removed = removed,
                      !.target = to, !.isCustom = isCustom]

\* Patch.initRootComponent(root)
initRootComponent(root) == [Patch(INIT_ROOT_COMPONENT) EXCEPT !.root = root]

\* Patch.updateNode(node, description); prevDescription is node.description
\* at the time the patch is made
updateNode(heap, node, description) ==
  [Patch(UPDATE_NODE) EXCEPT !.node = node, !.description = description,
                             !.prevDescription = heap[node].description]

\* Patch.insertChild(node, at, parent)
insertChild(node, at, parent) ==
  [Patch(INSERT_CHILD) EXCEPT !.node = node, !.at = at, !.parent = parent]

\* Patch.moveChild(child, from, to, parent)
moveChild(child, from, to, parent) ==
  [Patch(MOVE_CHILD) EXCEPT !.child = child, !.from = from, !.to = to,
                            !.parent = parent]

\* Patch.replaceChild(child, node, parent)
replaceChild(child, node, parent) ==
  [Patch(REPLACE_CHILD) EXCEPT !.child = child, !.node = node, !.parent = parent]

\* Patch.removeChild(child, at, parent)
removeChild(child, at, parent) ==
  [Patch(REMOVE_CHILD) EXCEPT !.child = child, !.at = at, !.parent = parent]

\* Patch.setContent(node, parent); child is parent.content at that time
setContent(heap, node, parent) ==
  [Patch(SET_CONTENT) EXCEPT !.node = node, !.child = heap[parent].content,
                             !.parent = parent]

-----------------------------------------------------------------------------
(* Diff *)

\* diff.addPatch(patch)
addPatch(diff, patch) == [diff EXCEPT !.patches = Append(@, patch)]

\* Diff.createKey(index): the index padded with zeros to eight digits, which
\* sorts by index and before every explicit key
createKey(index) == index - 100000000

\* node.key || Diff.createKey(index)
KeyOr(key, index) == IF key # NoKey THEN key ELSE createKey(index)

\* the update-node patch that ends componentPatches and elementPatches,
\* not reached when the patches of the content have thrown
WithUpdateNode(inner, node, description) ==
  IF inner.error # "" THEN inner
  ELSE addPatch(inner, updateNode(inner.nodes, node, description))

\* the set-content patch for the node created last
WithSetContent(made, parent) ==
  addPatch(made, setContent(made.nodes, made.id, parent))

\* the replace-child patch for the node created last
WithReplaceChild(made, child, parent) ==
  addPatch(made, replaceChild(child, made.id, parent))

\* one round of the loop of childrenPatches over the moves: made is the diff
\* after getNode, which has created a node when creates
MadeMove(loop, made, move, creates, existing, parent) ==
  LET node == IF creates THEN made.id ELSE existing
      patch == CASE move.name = REMOVE -> removeChild(node, move.at, parent)
                 [] move.name = INSERT -> insertChild(node, move.at, parent)
                 [] move.name = MOVE -> moveChild(node, move.from, move.to, parent)
  IN [diff |-> addPatch(made, patch),
      children |-> Make([move EXCEPT !.item = node], loop.children),
      created |-> IF creates THEN loop.created \cup {node} ELSE loop.created,
      map |-> IF creates THEN loop.map \cup {[key |-> move.item, node |-> node]}
              ELSE loop.map]

\* Object.keys(map) and map[key]
ObjectKeys(map) == [i \in 1..Len(map) |-> map[i].key]
Get(map, key) == map[IndexOf(ObjectKeys(map), key) + 1].value

\* the keys a map diff finds added: nextKeys.filter(key => !keys.includes(key))
Added(current, next) ==
  LET Test(key) == ~Includes(ObjectKeys(current), key)
  IN SelectSeq(ObjectKeys(next), Test)

\* the keys a map diff finds removed: keys.filter(key => !nextKeys.includes(key))
Removed(current, next) ==
  LET Test(key) == ~Includes(ObjectKeys(next), key)
  IN SelectSeq(ObjectKeys(current), Test)

\* the keys a map diff finds changed:
\* keys.filter(key => nextKeys.includes(key) && <the values differ>)
Changed(current, next, Differs(_, _)) ==
  LET Test(key) == /\ Includes(ObjectKeys(next), key)
                   /\ Differs(Get(current, key), Get(next, key))
  IN SelectSeq(ObjectKeys(current), Test)

\* a test that finds any two values different
NotIdentical_Always(a, b) == TRUE

\* current[key] !== next[key]
NotIdentical(a, b) == a # b

\* !Diff.deepEqual(current[key], next[key])
NotDeepEqual(a, b) == ~deepEqual(a, b)

\* listener.source: the listeners above MaxV are the wrappers that
\* createBoundListener makes, two for each source function; the others
\* record no source
sourceOf(listener) ==
  IF listener <= MaxV THEN Undefined ELSE (listener - MaxV + 1) \div 2

\* a test of listeners that looks at the functions alone
ListenerChanged_ByFunction(a, b) == a # b

\* the test of listenerPatches: the listeners are not identical and either
\* none has a source or the sources differ
ListenerChanged(a, b) ==
  /\ a # b
  /\ \/ sourceOf(a) = Undefined /\ sourceOf(b) = Undefined
     \/ sourceOf(a) # sourceOf(b)

\* the three loops that end every map diff: one patch for each added key,
\* then for each removed key, then for each changed key; types names the
\* patches and tells whether they carry the listener removed
mapPatches(diff, current, next, to, isCustom, types, Differs(_, _)) ==
  LET added == Added(current, next)
      removed == Removed(current, next)
      changed == Changed(current, next, Differs)
  IN [diff EXCEPT !.patches =
        @ \o [i \in 1..Len(added) |->
                KeyPatch(types.set, added[i], Get(next, added[i]), Undefined,
                         to, isCustom)]
          \o [i \in 1..Len(removed) |->
                KeyPatch(types.remove, removed[i], Undefined,
                         IF types.listener THEN Get(current, removed[i]) ELSE Undefined,
                         to, isCustom)]
          \o [i \in 1..Len(changed) |->
                KeyPatch(types.change, changed[i], Get(next, changed[i]),
                         IF types.listener THEN Get(current, changed[i]) ELSE Undefined,
                         to, isCustom)]]

\* Diff.classNamePatches(current, next, to)
classNamePatches(diff, current, next, to) ==
  IF current # next
    THEN addPatch(diff, KeyPatch("set-class-name", next, Undefined, Undefined,
                                 to, FALSE))
    ELSE diff

\* Diff.stylePatches(current, next, to)
stylePatches(diff, current, next, to) ==
  mapPatches(diff, current, next, to, FALSE,
             [set |-> "set-style-property", remove |-> "remove-style-property",
              change |-> "set-style-property", listener |-> FALSE],
             NotIdentical)

\* Diff.attributePatches(current, next, to, isCustom)
attributePatches(diff, current, next, to, isCustom) ==
  mapPatches(diff, current, next, to, isCustom,
             [set |-> "set-attribute", remove |-> "remove-attribute",
              change |-> "set-attribute", listener |-> FALSE],
             NotIdentical)

\* Diff.listenerPatches(current, next, to, isCustom)
listenerPatches(diff, current, next, to, isCustom) ==
  mapPatches(diff, current, next, to, isCustom,
             [set |-> "add-listener", remove |-> "remove-listener",
              change |-> "replace-listener", listener |-> TRUE],
             ListenerChanged)

\* Diff.datasetPatches(current, next, to)
datasetPatches(diff, current, next, to) ==
  mapPatches(diff, current, next, to, FALSE,
             [set |-> "set-data-attribute", remove |-> "remove-data-attribute",
              change |-> "set-data-attribute", listener |-> FALSE],
             NotIdentical)

\* Diff.propertiesPatches(current, next, to)
propertiesPatches(diff, current, next, to) ==
  mapPatches(diff, current, next, to, FALSE,
             [set |-> "set-property", remove |-> "delete-property",
              change |-> "set-property", listener |-> FALSE],
             NotDeepEqual)

\* the head of Diff.elementPatches: the patches of the class name and of
\* the maps of the element, the custom attributes and listeners last
ownPatches(diff, current, next, element) ==
  listenerPatches(
    attributePatches(
      propertiesPatches(
        datasetPatches(
          listenerPatches(
            attributePatches(
              stylePatches(
                classNamePatches(diff, current.class, next.class, element),
                current.style, next.style, element),
              current.attrs, next.attrs, element, FALSE),
            current.listeners, next.listeners, element, FALSE),
          current.dataset, next.dataset, element),
        current.properties, next.properties, element),
      current.custom.attrs, next.custom.attrs, element, TRUE),
    current.custom.listeners, next.custom.listeners, element, TRUE)

RECURSIVE componentPatches(_, _, _)
RECURSIVE componentContentPatches(_, _, _)
RECURSIVE childPatches(_, _, _)
RECURSIVE elementPatches(_, _, _)
RECURSIVE childrenPatches(_, _, _, _)
RECURSIVE elementChildPatches(_, _, _, _)
RECURSIVE update(_, _, _)
RECURSIVE movePatches(_, _, _, _, _, _)
RECURSIVE survivorPatches(_, _, _, _)

\* Diff.componentPatches(component, description)
componentPatches(diff, component, description) ==
  IF diff.nodes[component].isInitialized
     /\ deepEqual(diff.nodes[component].description, description)
    THEN diff
    ELSE WithUpdateNode(
           componentContentPatches(
             [diff EXCEPT !.rendered = Append(@, component)],
             render(description.component, description.props), component),
           component, description)

\* Diff.componentContentPatches(description, parent)
componentContentPatches(diff, description, parent) ==
  LET content == diff.nodes[parent].content
  IN IF content = NoNode /\ description.type = "none" THEN diff
     ELSE IF content = NoNode \/ description.type = "none"
       THEN [diff EXCEPT !.error = "Invalid component state!"]
     ELSE IF isCompatible(diff.nodes[content].description, description)
       THEN IF deepEqual(diff.nodes[content].description, description)
              THEN diff
              ELSE childPatches(diff, content, description)
     ELSE WithSetContent(createFromDescription(diff, description, parent), parent)

\* the branch of Diff.childPatches for a root: the update-node patch is
\* added to the patches of the diff of the parent tree ahead of
\* child.update(description); inner is the diff after childrenPatches
rootPatches(inner, child, description) ==
  IF inner.error # "" THEN inner
  ELSE [addPatch(inner, updateNode(inner.nodes, child, description))
          EXCEPT !.nodes = update(inner.nodes, child, description)]

\* Diff.childPatches(child, description)
childPatches(diff, child, description) ==
  IF isRoot(diff.nodes[child])
    THEN rootPatches(childrenPatches(diff, diff.nodes[child].children,
                                     description.children, child),
                     child, description)
  ELSE IF isComponent(diff.nodes[child]) THEN componentPatches(diff, child, description)
  ELSE IF isElement(diff.nodes[child]) THEN elementPatches(diff, child, description)
  ELSE [diff EXCEPT !.error = "Unsupported node type:"]

\* elementPatches diffing the children ahead of the class name and the maps
elementPatches_ChildrenFirst(diff, element, description) ==
  IF deepEqual(diff.nodes[element].description, description) THEN diff
  ELSE WithUpdateNode(
         ownPatches(
           IF diff.nodes[element].children # <<>> \/ description.children # <<>>
             THEN childrenPatches(diff, diff.nodes[element].children,
                                  description.children, element)
             ELSE diff,
           diff.nodes[element].description, description, element),
         element, description)

\* Diff.elementPatches(element, description)
elementPatches(diff, element, description) ==
  IF deepEqual(diff.nodes[element].description, description) THEN diff
  ELSE WithUpdateNode(
         IF diff.nodes[element].children # <<>> \/ description.children # <<>>
           THEN childrenPatches(
                  ownPatches(diff, diff.nodes[element].description, description,
                             element),
                  diff.nodes[element].children, description.children, element)
           ELSE ownPatches(diff, diff.nodes[element].description, description,
                           element),
         element, description)

\* the loop of childrenPatches over the moves: moves[i..] remain; loop holds
\* the diff, the simulated children, the created nodes and createdNodesMap
movePatches(loop, ms, i, sourceNodes, targetDescriptions, parent) ==
  IF i > Len(ms) THEN loop
  ELSE
    LET move == ms[i]
        from == [k \in 1..Len(sourceNodes) |->
                   KeyOr(loop.diff.nodes[sourceNodes[k]].key, k - 1)]
        to == [k \in 1..Len(targetDescriptions) |->
                 KeyOr(targetDescriptions[k].key, k - 1)]
        known == Includes(from, move.item)
        mapped == {e \in loop.map : e.key = move.item}
        creates == ~known /\ move.name # MOVE
        \* getNode(move.item, move.name === Move.Name.MOVE) for a known key
        existing == IF known THEN sourceNodes[IndexOf(from, move.item) + 1]
                    ELSE IF creates THEN NoNode
                    ELSE (CHOOSE e \in mapped : TRUE).node
    IN movePatches(
         MadeMove(loop,
                  IF creates
                    THEN createFromDescription(
                           loop.diff, targetDescriptions[IndexOf(to, move.item) + 1],
                           parent)
                    ELSE loop.diff,
                  move, creates, existing, parent),
         ms, i + 1, sourceNodes, targetDescriptions, parent)

\* the final loop of childrenPatches: every child that was not created in
\* this pass is diffed against the description at its position
survivorPatches(loop, targetDescriptions, parent, i) ==
  IF i > Len(loop.children) \/ loop.diff.error # "" THEN loop.diff
  ELSE survivorPatches(
         [loop EXCEPT !.diff =
            IF loop.children[i] \in loop.created THEN @
            ELSE elementChildPatches(@, loop.children[i], targetDescriptions[i], parent)],
         targetDescriptions, parent, i + 1)

\* Diff.childrenPatches(sourceNodes, targetDescriptions, parent)
childrenPatches(diff, sourceNodes, targetDescriptions, parent) ==
  LET from == [k \in 1..Len(sourceNodes) |->
                 KeyOr(diff.nodes[sourceNodes[k]].key, k - 1)]
      to == [k \in 1..Len(targetDescriptions) |->
               KeyOr(targetDescriptions[k].key, k - 1)]
      dragged == {k \in 1..Len(sourceNodes) :
                    diff.nodes[sourceNodes[k]].description.props.beingDragged}
      nodeFavoredToMove ==
        IF dragged = {} THEN NoNode
        ELSE sourceNodes[CHOOSE k \in dragged : \A j \in dragged : k <= j]
      favoredToMove ==
        IF nodeFavoredToMove = NoNode THEN NoKey ELSE diff.nodes[nodeFavoredToMove].key
  IN survivorPatches(
       movePatches(
         [diff |-> diff, children |-> sourceNodes, created |-> {}, map |-> {}],
         calculateMoves(from, to, favoredToMove), 1,
         sourceNodes, targetDescriptions, parent),
       targetDescriptions, parent, 1)

\* Diff.elementChildPatches(child, description, parent)
elementChildPatches(diff, child, description, parent) ==
  IF isCompatible(diff.nodes[child].description, description)
    THEN IF deepEqual(diff.nodes[child].description, description)
           THEN diff
           ELSE childPatches(diff, child, description)
    ELSE WithReplaceChild(createFromDescription(diff, description, parent),
                          child, parent)

\* Template.describe([root.constructor, nextState]): the description of the
\* root for a state, the state being its props; the state of a nested root
\* holds the key among the props it was created with
describeRoot(heap, root, nextState) ==
  ComponentDescription(heap[root].description.component, heap[root].key,
                       Props(nextState.items, nextState.v))

\* new Diff(root, currentState, nextState): Diff.calculate; the root of the
\* application has neither attrs nor children of its own
calculate(heap, root, currentState, nextState) ==
  LET first == IF ~currentState.present
                 THEN addPatch(NewDiff(heap), initRootComponent(root))
                 ELSE NewDiff(heap)
  IN IF deepEqual(currentState, nextState) THEN first
     ELSE componentPatches(first, root, describeRoot(heap, root, nextState))

-----------------------------------------------------------------------------
(* Patch application: the apply functions of core/patch and the VirtualNode *)
(* methods they call.  opr.Toolkit.assert is console.assert: it reports and  *)
(* returns.                                                                  *)

\* the apply functions of the patches of one key and of SET_CLASS_NAME, on
\* this.target.ref
applyToRef(ref, patch) ==
  LET attr == IF patch.isCustom THEN patch.name ELSE getAttributeName(patch.name)
      event == IF patch.isCustom THEN patch.name ELSE getEventName(patch.name)
  IN CASE patch.type = "set-attribute" ->
            [ref EXCEPT !.attributes = Put(@, attr, patch.value)]
       [] patch.type = "remove-attribute" ->
            [ref EXCEPT !.attributes = Drop(@, attr)]
       [] patch.type = "set-data-attribute" ->
            [ref EXCEPT !.dataset = Put(@, patch.name, patch.value)]
       [] patch.type = "remove-data-attribute" ->
            [ref EXCEPT !.dataset = Drop(@, patch.name)]
       [] patch.type = "set-style-property" ->
            [ref EXCEPT !.style = Put(@, patch.name, patch.value)]
       [] patch.type = "remove-style-property" ->
            [ref EXCEPT !.style = Drop(@, patch.name)]
       [] patch.type = "set-class-name" ->
            [ref EXCEPT !.className = patch.name]
       [] patch.type = "add-listener" ->
            [ref EXCEPT !.listeners = @ \cup {[key |-> event, value |-> patch.value]}]
       [] patch.type = "replace-listener" ->
            [ref EXCEPT !.listeners =
               (@ \ {[key |-> event, value |-> patch.removed]})
                 \cup {[key |-> event, value |-> patch.value]}]
       [] patch.type = "remove-listener" ->
            [ref EXCEPT !.listeners = @ \ {[key |-> event, value |-> patch.removed]}]
       [] patch.type = "set-property" ->
            [ref EXCEPT !.properties = Put(@, patch.name, patch.value)]
       [] patch.type = "delete-property" ->
            [ref EXCEPT !.properties = Drop(@, patch.name)]

\* VirtualNode.insertChild(child, index):
\* this.ref.insertBefore(child.ref, nextChild && nextChild.ref || null)
insertChildAt(heap, parent, child, index) ==
  LET children == heap[parent].children
      reference == IF index < Len(children)
                     THEN domOf(heap, children[index + 1]) ELSE NoNode
  IN [heap EXCEPT ![parent].children = Splice(@, index, 0, <<child>>),
                  ![parent].ref.childNodes = insertBefore(@, domOf(heap, child), reference),
                  ![child].parentNode = parent]

\* VirtualNode.replaceChild(child, node): child.ref.replaceWith(node.ref)
replaceChildWith(heap, parent, child, node) ==
  LET index == IndexOf(heap[parent].children, child)
  IN [replaceWith(heap, domOf(heap, child), domOf(heap, node))
        EXCEPT ![parent].children = Splice(@, index, 1, <<node>>),
               ![child].parentNode = NoNode,
               ![node].parentNode = parent]

\* a moveChild that leaves the child where it is
moveChildTo_Stays(heap, parent, child, from, to) == heap

\* this.ref.removeChild(child.ref);
\* this.ref.insertBefore(child.ref, this.ref.children[to]): the reference is
\* taken from the element children of the DOM element
movedNode(heap, left, node, to) ==
  insertBefore(left, node,
               IF to < Len(elementChildren(heap, left))
                 THEN elementChildren(heap, left)[to + 1] ELSE NoNode)

\* VirtualNode.moveChild(child, from, to)
moveChildTo(heap, parent, child, from, to) ==
  [heap EXCEPT ![parent].children = Splice(Splice(@, from, 1, <<>>), to, 0, <<child>>),
               ![parent].ref.childNodes =
                  IF ~Includes(@, domOf(heap, child)) THEN @
                  ELSE movedNode(heap, withoutNode(@, domOf(heap, child)),
                                 domOf(heap, child), to)]

\* VirtualNode.removeChild(child): this.ref.removeChild(child.ref)
removeChildOf(heap, parent, child) ==
  [heap EXCEPT ![parent].children = Splice(@, IndexOf(@, child), 1, <<>>),
               ![parent].ref.childNodes = withoutNode(@, domOf(heap, child))]

\* Component.setContent(node): this.content.ref.replaceWith(node.ref)
setContentOf(heap, parent, node) ==
  [replaceWith(heap, domOf(heap, heap[parent].content), domOf(heap, node))
     EXCEPT ![heap[parent].content].parentNode = NoNode,
            ![node].parentNode = parent,
            ![parent].content = node]

\* patch.apply()
applyPatch(heap, patch) ==
  CASE patch.type = INIT_ROOT_COMPONENT -> heap
    [] patch.type = UPDATE_NODE ->
         [heap EXCEPT ![patch.node].description = patch.description]
    [] patch.type = INSERT_CHILD -> insertChildAt(heap, patch.parent, patch.node, patch.at)
    [] patch.type = REPLACE_CHILD ->
         replaceChildWith(heap, patch.parent, patch.child, patch.node)
    [] patch.type = MOVE_CHILD ->
         moveChildTo(heap, patch.parent, patch.child, patch.from, patch.to)
    [] patch.type = REMOVE_CHILD -> removeChildOf(heap, patch.parent, patch.child)
    [] patch.type = SET_CONTENT -> setContentOf(heap, patch.parent, patch.node)
    [] OTHER -> [heap EXCEPT ![patch.target].ref = applyToRef(@, patch)]

-----------------------------------------------------------------------------
(* Lifecycle: the hooks a patch triggers, in call order.  An invoked hook is *)
(* an event that records the dispatcher mode while the hook runs and the     *)
(* mode the dispatcher is left in; "" stands for a mode left untouched.      *)

EXECUTE == "execute"
QUEUE == "queue"
IGNORE == "ignore"

HookEvent(hook, node, during, after) ==
  [kind |-> "hook", hook |-> hook, node |-> node, during |-> during, after |-> after]

\* the record of patches[index] having been applied
ApplyEvent(index) ==
  [kind |-> "apply", hook |-> "", node |-> index, during |-> "", after |-> ""]

\* a hook of a component, invoked only if its class defines it
Invoke(heap, node, hook, during, after) ==
  IF hasOwnMethod(heap[node].description.component, hook)
    THEN <<HookEvent(hook, node, during, after)>>
    ELSE <<>>

RECURSIVE onNodeCreated(_, _)
RECURSIVE onChildrenCreated(_, _, _)
RECURSIVE onNodeAttached(_, _)
RECURSIVE onChildrenAttached(_, _, _)
RECURSIVE onNodeDestroyed(_, _)
RECURSIVE onChildrenDestroyed(_, _, _)
RECURSIVE onNodeDetached(_, _)
RECURSIVE onChildrenDetached(_, _, _)

\* Lifecycle.onComponentCreated(component)
onComponentCreated(heap, component) ==
  Invoke(heap, component, "onCreated", QUEUE, EXECUTE)
    \o (IF heap[component].content # NoNode
          THEN onNodeCreated(heap, heap[component].content) ELSE <<>>)

\* the loop of Lifecycle.onElementCreated and onRootCreated over the children
onChildrenCreated(heap, children, i) ==
  IF i > Len(children) THEN <<>>
  ELSE onNodeCreated(heap, children[i]) \o onChildrenCreated(heap, children, i + 1)

\* Lifecycle.onElementCreated(element)
onElementCreated(heap, element) == onChildrenCreated(heap, heap[element].children, 1)

\* Lifecycle.onNodeCreated(node)
onNodeCreated(heap, node) ==
  IF isElement(heap[node]) THEN onElementCreated(heap, node)
  ELSE IF isComponent(heap[node]) /\ ~isRoot(heap[node])
    THEN onComponentCreated(heap, node)
  ELSE <<>>

\* Lifecycle.onRootCreated(root)
onRootCreated(heap, root) ==
  Invoke(heap, root, "onCreated", QUEUE, EXECUTE)
    \o onChildrenCreated(heap, heap[root].children, 1)

\* onComponentAttached with the hook of the component ahead of its content
onComponentAttached_HookFirst(heap, component) ==
  Invoke(heap, component, "onAttached", QUEUE, EXECUTE)
    \o (IF heap[component].content # NoNode
          THEN onNodeAttached(heap, heap[component].content) ELSE <<>>)

\* Lifecycle.onComponentAttached(component)
onComponentAttached(heap, component) ==
  (IF heap[component].content # NoNode
     THEN onNodeAttached(heap, heap[component].content) ELSE <<>>)
    \o Invoke(heap, component, "onAttached", QUEUE, EXECUTE)

\* the loop of Lifecycle.onElementAttached and onRootAttached over the children
onChildrenAttached(heap, children, i) ==
  IF i > Len(children) THEN <<>>
  ELSE onNodeAttached(heap, children[i]) \o onChildrenAttached(heap, children, i + 1)

\* Lifecycle.onElementAttached(element)
onElementAttached(heap, element) == onChildrenAttached(heap, heap[element].children, 1)

\* Lifecycle.onNodeAttached(node)
onNodeAttached(heap, node) ==
  IF isElement(heap[node]) THEN onElementAttached(heap, node)
  ELSE IF isComponent(heap[node]) /\ ~isRoot(heap[node])
    THEN onComponentAttached(heap, node)
  ELSE <<>>

\* Lifecycle.onRootAttached(root): the hook runs without a change of mode
onRootAttached(heap, root) ==
  onChildrenAttached(heap, heap[root].children, 1)
    \o Invoke(heap, root, "onAttached", "", "")

\* Lifecycle.onNodeReceivedDescription(node, description)
\* with onComponentReceivedProps
onNodeReceivedDescription(heap, node) ==
  IF isComponent(heap[node])
    THEN Invoke(heap, node, "onPropsReceived", QUEUE, EXECUTE) ELSE <<>>

\* Lifecycle.onNodeUpdated(node, prevDescription) with onComponentUpdated
onNodeUpdated(heap, node) ==
  IF isComponent(heap[node])
    THEN Invoke(heap, node, "onUpdated", QUEUE, EXECUTE) ELSE <<>>

\* Lifecycle.onComponentDestroyed(component); component.destroy() runs the
\* clean-up tasks, of which the application registers none
onComponentDestroyed(heap, component) ==
  Invoke(heap, component, "onDestroyed", IGNORE, IGNORE)
    \o (IF heap[component].content # NoNode
          THEN onNodeDestroyed(heap, heap[component].content) ELSE <<>>)
    \o (IF isRoot(heap[component])
          THEN onChildrenDestroyed(heap, heap[component].children, 1) ELSE <<>>)

\* Lifecycle.onElementDestroyed(element)
onChildrenDestroyed(heap, children, i) ==
  IF i > Len(children) THEN <<>>
  ELSE onNodeDestroyed(heap, children[i]) \o onChildrenDestroyed(heap, children, i + 1)

\* Lifecycle.onNodeDestroyed(node)
onNodeDestroyed(heap, node) ==
  IF isElement(heap[node]) THEN onChildrenDestroyed(heap, heap[node].children, 1)
  ELSE IF isComponent(heap[node]) /\ ~isRoot(heap[node])
    THEN onComponentDestroyed(heap, node)
  ELSE <<>>

\* onComponentDetached with the hook of the component ahead of its content
onComponentDetached_HookFirst(heap, component) ==
  (IF isRoot(heap[component])
     THEN onChildrenDetached(heap, heap[component].children, 1) ELSE <<>>)
    \o Invoke(heap, component, "onDetached", IGNORE, IGNORE)
    \o (IF heap[component].content # NoNode
          THEN onNodeDetached(heap, heap[component].content) ELSE <<>>)

\* Lifecycle.onComponentDetached(component)
onComponentDetached(heap, component) ==
  (IF isRoot(heap[component])
     THEN onChildrenDetached(heap, heap[component].children, 1) ELSE <<>>)
    \o (IF heap[component].content # NoNode
          THEN onNodeDetached(heap, heap[component].content) ELSE <<>>)
    \o Invoke(heap, component, "onDetached", IGNORE, IGNORE)

\* Lifecycle.onElementDetached(element)
onChildrenDetached(heap, children, i) ==
  IF i > Len(children) THEN <<>>
  ELSE onNodeDetached(heap, children[i]) \o onChildrenDetached(heap, children, i + 1)

\* Lifecycle.onNodeDetached(node): the hooks it invokes
onNodeDetached(heap, node) ==
  IF isElement(heap[node]) THEN onChildrenDetached(heap, heap[node].children, 1)
  ELSE IF isComponent(heap[node]) /\ ~isRoot(heap[node])
    THEN onComponentDetached(heap, node)
  ELSE <<>>

RECURSIVE Unlinked(_, _)
\* Lifecycle.onNodeDetached(node): the nodes whose parentNode it sets to null,
\* the elements and components of the subtree
Unlinked(heap, node) ==
  IF isElement(heap[node])
    THEN {node} \cup UNION {Unlinked(heap, heap[node].children[i]) :
                              i \in 1..Len(heap[node].children)}
  ELSE IF isComponent(heap[node]) /\ ~isRoot(heap[node])
    THEN {node} \cup (IF heap[node].content # NoNode
                        THEN Unlinked(heap, heap[node].content) ELSE {})
  ELSE {}

\* beforePatchApplied creating the replacement ahead of destroying the
\* displaced node
beforePatchApplied_CreateFirst(heap, patch) ==
  CASE patch.type = INIT_ROOT_COMPONENT -> onRootCreated(heap, patch.root)
    [] patch.type = INSERT_CHILD -> onNodeCreated(heap, patch.node)
    [] patch.type \in {REPLACE_CHILD, SET_CONTENT} ->
         onNodeCreated(heap, patch.node) \o onNodeDestroyed(heap, patch.child)
    [] patch.type = REMOVE_CHILD -> onNodeDestroyed(heap, patch.child)
    [] patch.type = UPDATE_NODE -> onNodeReceivedDescription(heap, patch.node)
    [] OTHER -> <<>>

\* Lifecycle.beforePatchApplied(patch)
beforePatchApplied(heap, patch) ==
  CASE patch.type = INIT_ROOT_COMPONENT -> onRootCreated(heap, patch.root)
    [] patch.type = INSERT_CHILD -> onNodeCreated(heap, patch.node)
    [] patch.type \in {REPLACE_CHILD, SET_CONTENT} ->
         onNodeDestroyed(heap, patch.child) \o onNodeCreated(heap, patch.node)
    [] patch.type = REMOVE_CHILD -> onNodeDestroyed(heap, patch.child)
    [] patch.type = UPDATE_NODE -> onNodeReceivedDescription(heap, patch.node)
    [] OTHER -> <<>>

\* afterPatchApplied with the displaced node and its replacement mixed up
afterPatchApplied_Swapped(heap, patch) ==
  CASE patch.type = INIT_ROOT_COMPONENT -> onRootAttached(heap, patch.root)
    [] patch.type = INSERT_CHILD -> onNodeAttached(heap, patch.node)
    [] patch.type \in {REPLACE_CHILD, SET_CONTENT} ->
         onNodeDetached(heap, patch.node) \o onNodeAttached(heap, patch.child)
    [] patch.type = REMOVE_CHILD -> onNodeDetached(heap, patch.child)
    [] patch.type = UPDATE_NODE -> onNodeUpdated(heap, patch.node)
    [] OTHER -> <<>>

\* afterPatchApplied attaching the replacement ahead of detaching the
\* displaced node
afterPatchApplied_AttachFirst(heap, patch) ==
  CASE patch.type = INIT_ROOT_COMPONENT -> onRootAttached(heap, patch.root)
    [] patch.type = INSERT_CHILD -> onNodeAttached(heap, patch.node)
    [] patch.type \in {REPLACE_CHILD, SET_CONTENT} ->
         onNodeAttached(heap, patch.node) \o onNodeDetached(heap, patch.child)
    [] patch.type = REMOVE_CHILD -> onNodeDetached(heap, patch.child)
    [] patch.type = UPDATE_NODE -> onNodeUpdated(heap, patch.node)
    [] OTHER -> <<>>

\* Lifecycle.afterPatchApplied(patch)
afterPatchApplied(heap, patch) ==
  CASE patch.type = INIT_ROOT_COMPONENT -> onRootAttached(heap, patch.root)
    [] patch.type = INSERT_CHILD -> onNodeAttached(heap, patch.node)
    [] patch.type \in {REPLACE_CHILD, SET_CONTENT} ->
         onNodeDetached(heap, patch.child) \o onNodeAttached(heap, patch.node)
    [] patch.type = REMOVE_CHILD -> onNodeDetached(heap, patch.child)
    [] patch.type = UPDATE_NODE -> onNodeUpdated(heap, patch.node)
    [] OTHER -> <<>>

\* the heap after Lifecycle.afterPatchApplied(patch)
afterPatchHeap(heap, patch) ==
  IF patch.type \in {REPLACE_CHILD, SET_CONTENT, REMOVE_CHILD}
    THEN [n \in 1..Len(heap) |->
            IF n \in Unlinked(heap, patch.child)
              THEN [heap[n] EXCEPT !.parentNode = NoNode] ELSE heap[n]]
    ELSE heap

-----------------------------------------------------------------------------
(* A nested root: WebComponent.update and the update cycles of its own      *)
(* dispatcher, which run while the diff of the parent tree is calculated.    *)
(* No hook of the nested root of the application dispatches a command, so    *)
(* the dispatcher of a nested root is in execute mode when update is called. *)

\* the loop of Lifecycle.beforeUpdate(patches): the hooks it invokes
RECURSIVE beforeEvents(_, _)
beforeEvents(heap, ps) ==
  IF ps = <<>> THEN <<>>
  ELSE beforePatchApplied(heap, Head(ps)) \o beforeEvents(heap, Tail(ps))

\* the loop of Lifecycle.afterUpdate(patches) over the reversed patches: the
\* hooks it invokes
RECURSIVE afterEvents(_, _)
afterEvents(heap, ps) ==
  IF ps = <<>> THEN <<>>
  ELSE afterPatchApplied(heap, ps[Len(ps)])
         \o afterEvents(afterPatchHeap(heap, ps[Len(ps)]), SubSeq(ps, 1, Len(ps) - 1))

\* the loop of Diff.apply over the patches
RECURSIVE applyAll(_, _)
applyAll(heap, ps) ==
  IF ps = <<>> THEN heap ELSE applyAll(applyPatch(heap, Head(ps)), Tail(ps))

\* the loop of Lifecycle.afterUpdate over the reversed patches: the heap it
\* leaves
RECURSIVE afterUpdate(_, _)
afterUpdate(heap, ps) ==
  IF ps = <<>> THEN heap
  ELSE afterUpdate(afterPatchHeap(heap, ps[Len(ps)]), SubSeq(ps, 1, Len(ps) - 1))

\* diff.apply() in Renderer.update(root, from, to, command) for a nested
\* root: the hooks of the cycle are listed in root.own
applyNested(diff, root) ==
  [afterUpdate(applyAll(diff.nodes, diff.patches), diff.patches) EXCEPT
     ![root].own = @ \o beforeEvents(diff.nodes, diff.patches)
                     \o afterEvents(applyAll(diff.nodes, diff.patches), diff.patches)]

\* Dispatcher.execute(command, root) for the setState command of a nested
\* root
executeNested(heap, root, nextState) ==
  applyNested(calculate([heap EXCEPT ![root].state = nextState], root,
                        heap[root].state, nextState),
              root)

\* the WebComponent.getInitialState(props) and getUpdatedState(props, state)
\* of the class: {...props} and {...state, ...props}
getUpdatedState(props, current) ==
  [present |-> TRUE, items |-> props.items,
   v |-> IF props.v = Undefined THEN current.v ELSE props.v]

\* WebComponent.update(description) of a nested root
update(heap, child, description) ==
  IF ~heap[child].isInitialized
    THEN [heap EXCEPT ![child].pendingDescription = description]
    ELSE executeNested(heap, child,
                       getUpdatedState(description.props, heap[child].state))

-----------------------------------------------------------------------------
(* SpecMoves: calculateMoves on every pair of key lists within the bounds *)

Keys == 1..MaxKeys

\* key lists without repeated keys, as the callers hand them over
KeyLists ==
  UNION {{s \in [1..n -> Keys] : \A i, j \in 1..n : i # j => s[i] # s[j]} :
         n \in 0..MaxLen}

\* the favoredToMove argument: absent, or a key
Favorites == {NoKey} \cup Keys

\* the variables of SpecLeague while another specification runs
LeagueUnused == players = <<>> /\ returned = <<>> /\ calculated = FALSE

\* the variables of SpecLoader while another specification runs
LoaderUnused ==
  /\ ready = 0 /\ released = {} /\ loadPromises = <<>> /\ registry = <<>>
  /\ preloads = <<>>

\* the variables of SpecTokens while another specification runs
TokensUnused == clock = 0 /\ rows = <<>> /\ lookups = <<>>

\* the tree variables while SpecMoves runs
TreeUnused ==
  /\ nodes = <<>> /\ state = Undefined /\ mode = "execute" /\ phase = "unused"
  /\ patches = <<>> /\ idx = 0 /\ log = <<>> /\ hist = <<>> /\ rendered = <<>>
  /\ cycles = 0
  /\ queue = <<>> /\ level = 0 /\ timers = <<>> /\ pending = <<>> /\ calls = <<>>
  /\ hooked = [hook |-> "", cls |-> ""] /\ thrown = "" /\ cascaded = 0
  /\ dropped = 0 /\ raisedAt = -1 /\ resolved = 0
  /\ origin = NoDescription

InitMoves ==
  /\ source \in KeyLists
  /\ target \in KeyLists
  /\ favored \in Favorites
  /\ moves = <<>>
  /\ work = source
  /\ pos = -1
  /\ TreeUnused
  /\ LeagueUnused
  /\ LoaderUnused
  /\ TokensUnused

\* the call of Reconciler.calculateMoves
Calculate ==
  /\ pos = -1
  /\ moves' = calculateMoves(source, target, favored)
  /\ pos' = 0
  /\ UNCHANGED <<source, target, favored, work, treeVars, leagueVars, loaderVars, tokenVars>>

\* the caller makes the next returned move on its copy of the source list
MakeMove ==
  /\ pos >= 0 /\ pos < Len(moves)
  /\ work' = Make(moves[pos + 1], work)
  /\ pos' = pos + 1
  /\ UNCHANGED <<source, target, favored, moves, treeVars, leagueVars, loaderVars, tokenVars>>

NextMoves == Calculate \/ MakeMove

SpecMoves == InitMoves /\ [][NextMoves]_vars

Replayed == pos = Len(moves)

-----------------------------------------------------------------------------
(* Spec: the update cycles of one root component *)

Root == 1

\* the items of a root state: a key and the component class rendered for it
Items == {[key |-> k, cls |-> c] : k \in 1..MaxItemKeys, c \in {"A", "B"}}

ItemLists ==
  UNION {{s \in [1..n -> Items] : \A i, j \in 1..n : i # j => s[i].key # s[j].key} :
         n \in 0..MaxItems}

\* the states a command can set
States == {[present |-> TRUE, items |-> items, v |-> v] :
             items \in ItemLists, v \in 0..MaxV}

\* the variables of SpecMoves while Spec runs
MovesUnused ==
  /\ source = <<>> /\ target = <<>> /\ favored = NoKey /\ moves = <<>>
  /\ work = <<>> /\ pos = 0

\* the application has no hook that dispatches a command
NoHook == [hook |-> "", cls |-> ""]

\* the states set on a root whose hooks dispatch; a root whose own hook
\* dispatches is given no items
HookStates ==
  {[present |-> TRUE, items |-> items, v |-> v] :
     items \in IF hooked.cls = "R" THEN {<<>>}
               ELSE {<<>>, <<[key |-> 1, cls |-> "B"]>>, <<[key |-> 1, cls |-> "K"]>>},
     v \in 0..1}

\* the hook that dispatches, one application for each: a hook of the root
\* class or of class B
HookChoices ==
  {[hook |-> h, cls |-> "R"] : h \in {"onCreated", "onAttached", "onUpdated"}}
    \cup {[hook |-> h, cls |-> "B"] : h \in {"onAttached", "onUpdated", "onDestroyed"}}

\* the states a command dispatched from outside can set
Inputs == IF hooked = NoHook THEN States ELSE HookStates

\* the commands of the root: setState(state), and the command a hook
\* dispatches, which changes the prop v of the state it finds
SetState(next) == [name |-> "setState", state |-> next, id |-> 0]
Bump == [name |-> "bump", state |-> NoState, id |-> 0]

RECURSIVE Waiting(_)
\* the number of commands in the tasks
Waiting(tasks) == IF tasks = <<>> THEN 0 ELSE Len(Head(tasks)) + Waiting(Tail(tasks))

\* queue.push(command) in queue mode: the command objects are told apart by
\* id, the number of commands queued up to this one
Push(q, command) ==
  Append(q, [command EXCEPT !.id = cascaded + Len(pending) + Waiting(timers) + Len(q) + 1])

\* command.invoke(prevState)
invoke(command, prevState) ==
  IF command.name = "setState" THEN command.state
  ELSE [prevState EXCEPT !.v = (@ + 1) % 2]

\* the root and its dispatcher after construction, common to the
\* specifications of update cycles.
\* VirtualDOM.createWebComponent(description, null): the WebComponent
\* constructor leaves the root uninitialized, with a comment named after the
\* class as its content (createPlaceholder) and a dispatcher in execute mode
Constructed ==
  /\ nodes = <<[NewNode("root", ComponentDescription("R", NoKey, NoProps), NoNode)
                  EXCEPT !.content = 2],
               NewNode("comment", CommentDescription(displayName("R")), NoNode)>>
  /\ state = NoState
  /\ mode = EXECUTE
  /\ phase = "idle"
  /\ patches = <<>>
  /\ idx = 0
  /\ log = <<>>
  /\ hist = <<<<>>, <<>>>>
  /\ rendered = <<>>
  /\ cycles = 0
  /\ queue = <<>>
  /\ level = 0
  /\ timers = <<>>
  /\ pending = <<>>
  /\ calls = <<>>
  /\ thrown = ""
  /\ cascaded = 0
  /\ dropped = 0
  /\ raisedAt = -1
  /\ resolved = 0
  /\ origin = NoDescription
  /\ MovesUnused
  /\ LeagueUnused
  /\ LoaderUnused
  /\ TokensUnused

Init == Constructed /\ hooked = NoHook

InitDispatch == Constructed /\ hooked \in HookChoices

\* the hooks of the events appended to the histories of their nodes
RECURSIVE Record(_, _)
Record(h, events) ==
  IF events = <<>> THEN h
  ELSE Record([h EXCEPT ![events[1].node] = Append(@, events[1].hook)], Tail(events))

\* WebComponent.init() after setState has returned: this.isInitialized = true;
\* after later commands the flag is set already
Settled(heap) == [heap EXCEPT ![Root].isInitialized = TRUE]

\* the hook of the application throws instead of dispatching a command
Throwing == "throws" \in DOMAIN hooked

\* the hook of the event is the one that dispatches a command
Dispatches(heap, event) ==
  /\ ~Throwing
  /\ event.hook = hooked.hook
  /\ heap[event.node].description.component = hooked.cls

\* the hooks of the events run in order: Lifecycle sets dispatcher.mode around
\* each hook, and a command dispatched by the hook goes through the command
\* wrapper, which queues it in queue mode, drops it in ignore mode and else
\* executes it at once (counted in immediate).  d holds mode, queue, level.
\* The hook of a nested root runs between the mode changes of the
\* dispatcher of that root.
RECURSIVE RunHooks(_, _, _)
RunHooks(d, heap, events) ==
  IF events = <<>> THEN d
  ELSE
    LET event == events[1]
        during == IF event.during # "" THEN event.during ELSE d.mode
        after == IF event.after # "" THEN event.after ELSE during
    IN RunHooks(
         IF event.node # Root /\ isRoot(heap[event.node]) THEN d
         ELSE IF ~Dispatches(heap, event) THEN [d EXCEPT !.mode = after]
         ELSE CASE during = QUEUE ->
                     [d EXCEPT !.mode = after, !.queue = Push(@, Bump)]
                [] during = IGNORE ->
                     [d EXCEPT !.mode = after, !.level = 0]
                [] OTHER ->
                     [d EXCEPT !.mode = after, !.immediate = @ + 1],
         heap, Tail(events))

TooManyCycles == "Too many cycles updating state in lifecycle methods!"

\* a throw that leaves the level as the wrapper has raised it
Raise_KeepsLevel(d) ==
  [d EXCEPT !.level = @ + 1, !.raised = TRUE, !.thrown = TooManyCycles]

\* try { throw new Error('Too many cycles ...') } finally { level = 0 }
Raise(d) == [d EXCEPT !.level = 0, !.raised = TRUE, !.thrown = TooManyCycles]

\* a wrapper that schedules the task and forgets to empty the queue
Schedule_KeepsQueue(d) ==
  [d EXCEPT !.level = @ + 1, !.timers = Append(@, d.queue)]

\* level = level + 1; const tasks = [...this.queue]; setTimeout(...);
\* this.queue.length = 0
Schedule(d) ==
  [d EXCEPT !.level = @ + 1, !.timers = Append(@, d.queue), !.queue = <<>>]

\* the rest of the command wrapper once Dispatcher.execute has returned, for
\* the calls in progress, innermost first; a flush task only marks the
\* command done.  d holds queue, level, timers, thrown and raised, which is
\* set while the error of the wrapper unwinds the calls.
RECURSIVE Returned(_, _)
Returned(d, stack) ==
  IF stack = <<>> \/ d.raised THEN d
  ELSE
    LET rest == SubSeq(stack, 1, Len(stack) - 1)
    IN IF stack[Len(stack)] = "flush"
         THEN Returned([d EXCEPT !.resolved = @ + 1], rest)
       ELSE IF d.queue # <<>>
         THEN IF d.level + 1 > 3
                THEN Raise(d)
                ELSE Returned(Schedule(d), rest)
       ELSE Returned([d EXCEPT !.level = 0], rest)

\* the dispatcher fields Returned works on
Dispatcher(q, l, t) ==
  [queue |-> q, level |-> l, timers |-> t, thrown |-> thrown, raised |-> FALSE,
   resolved |-> resolved]

\* the variables a finished call of Dispatcher.execute leaves behind
Finished(heap, d) ==
  /\ nodes' = IF d.raised THEN heap ELSE Settled(heap)
  /\ phase' = "idle"
  /\ idx' = 0
  /\ calls' = <<>>
  /\ queue' = d.queue
  /\ level' = d.level
  /\ timers' = d.timers
  /\ thrown' = d.thrown
  /\ resolved' = d.resolved
  /\ raisedAt' = IF d.raised /\ d.thrown = TooManyCycles THEN cycles' ELSE raisedAt

\* Renderer.update with the diff calculated: diff.apply() starts the update
\* cycle when there are patches; without patches, or when the diff has
\* thrown, the call of execute is over.  h holds the histories, stack the
\* calls of execute in progress, q, l and t the queue, level and timers.
Updating(diff, h, stack, q, l, t) ==
  /\ hist' = h \o [i \in 1..(Len(diff.nodes) - Len(nodes)) |-> <<>>]
  /\ rendered' = diff.rendered
  /\ log' = <<>>
  /\ IF diff.error # ""
       THEN /\ patches' = <<>>
            /\ Finished(diff.nodes,
                        [Dispatcher(q, l, t) EXCEPT !.raised = TRUE,
                                                    !.thrown = diff.error])
       ELSE IF diff.patches = <<>>
         THEN /\ patches' = <<>>
              /\ Finished(diff.nodes, Returned(Dispatcher(q, l, t), stack))
       ELSE /\ patches' = diff.patches
            /\ nodes' = diff.nodes
            /\ phase' = "before"
            /\ idx' = 0
            /\ calls' = stack
            /\ queue' = q
            /\ level' = l
            /\ timers' = t
            /\ UNCHANGED <<thrown, raisedAt, resolved>>

\* Dispatcher.execute(command, root) up to diff.apply(), called by the
\* callers of stack
Execute(command, h, stack, q, l, t) ==
  /\ state' = invoke(command, state)
  /\ Updating(calculate(nodes, Root, state, invoke(command, state)), h, stack, q, l, t)

\* the command wrapper executing the commands it receives in ignore mode
Command_IgnoreExecutes(command) ==
  CASE mode = QUEUE ->
         /\ queue' = Push(queue, command)
         /\ UNCHANGED <<nodes, state, mode, phase, patches, idx, log, hist, rendered,
                        level, timers, calls, thrown, dropped, raisedAt,
                        resolved>>
    [] OTHER ->
         /\ Execute(command, hist, <<"wrapper">>, queue, level, timers)
         /\ dropped' = IF mode = IGNORE THEN dropped + 1 ELSE dropped
         /\ UNCHANGED mode

\* the command wrapper of the Dispatcher constructor, called outside of an
\* update cycle: the command is queued in queue mode, dropped in ignore mode
\* and else executed
Command(command) ==
  CASE mode = QUEUE ->
         /\ queue' = Push(queue, command)
         /\ UNCHANGED <<nodes, state, mode, phase, patches, idx, log, hist, rendered,
                        level, timers, calls, thrown, dropped, raisedAt,
                        resolved>>
    [] mode = IGNORE ->
         /\ level' = 0
         /\ dropped' = dropped + 1
         /\ UNCHANGED <<nodes, state, mode, phase, patches, idx, log, hist, rendered,
                        queue, timers, calls, thrown, raisedAt,
                        resolved>>
    [] OTHER ->
         /\ Execute(command, hist, <<"wrapper">>, queue, level, timers)
         /\ UNCHANGED <<mode, dropped>>

\* WebComponent.init(): the initial state is set by the first command
Mount(initial) ==
  /\ phase = "idle" /\ ~nodes[Root].isInitialized /\ ~state.present
  /\ UNCHANGED cycles
  /\ Command(SetState(initial))
  /\ UNCHANGED <<pending, hooked, cascaded, dropped, origin, movesVars,
                 leagueVars, loaderVars, tokenVars>>

\* commands a root executes after its mount
MaxCommands ==
  IF hooked = NoHook THEN MaxCycles
  ELSE IF hooked.cls = "R" THEN MaxSeries ELSE MaxCascade

\* the nested roots whose init() has still to go on
Uninitialized ==
  {n \in 2..Len(nodes) : isRoot(nodes[n]) /\ ~nodes[n].isInitialized}

\* a setState command dispatched between two update cycles, by an event
\* handler or a timer of the application; the init() of a nested root goes
\* on, as a microtask, ahead of every event handler and timer
Dispatch(next) ==
  /\ phase = "idle" /\ nodes[Root].isInitialized /\ pending = <<>>
  /\ Uninitialized = {}
  /\ cycles < MaxCommands
  /\ cycles' = cycles + 1
  /\ Command(SetState(next))
  /\ UNCHANGED <<pending, hooked, cascaded, origin, movesVars,
                 leagueVars, loaderVars, tokenVars>>

\* the task the command wrapper has scheduled with setTimeout executes its
\* next command, the first command when the timer fires; no other code
\* runs between the commands of a task
Flush ==
  /\ phase = "idle" /\ (pending # <<>> \/ timers # <<>>)
  /\ UNCHANGED cycles
  /\ LET task == IF pending # <<>> THEN pending ELSE Head(timers)
         left == IF pending # <<>> THEN timers ELSE Tail(timers)
     IN /\ pending' = Tail(task)
        /\ Execute(Head(task), hist, <<"flush">>, queue, level, left)
  /\ cascaded' = cascaded + 1
  /\ UNCHANGED <<mode, hooked, dropped, origin, movesVars,
                 leagueVars, loaderVars, tokenVars>>

HookError == "Error thrown by a hook"

\* component.onCreated.call(...) and the like: the hook of the event throws
Throws(heap, event) ==
  /\ Throwing
  /\ event.kind = "hook"
  /\ event.hook = hooked.hook
  /\ heap[event.node].description.component = hooked.cls

\* the index of the first of the events whose hook throws, 0 where none does
Thrower(heap, events) ==
  IF \A j \in 1..Len(events) : ~Throws(heap, events[j]) THEN 0
  ELSE CHOOSE j \in 1..Len(events) :
         Throws(heap, events[j]) /\ \A k \in 1..(j - 1) : ~Throws(heap, events[k])

\* a handler of the error that puts the state of the description back
Unwound_Restores(heap, events, j) ==
  /\ log' = log \o SubSeq(events, 1, j)
  /\ hist' = Record(hist, SubSeq(events, 1, j))
  /\ mode' = EXECUTE
  /\ thrown' = HookError
  /\ phase' = "idle" /\ idx' = 0 /\ calls' = <<>>
  /\ nodes' = heap
  /\ state' = [present |-> TRUE,
               items |-> heap[Root].description.props.items,
               v |-> heap[Root].description.props.v]
  /\ UNCHANGED <<patches, rendered, cycles, queue, level, timers, pending, hooked,
                 cascaded, dropped, raisedAt, resolved, origin, movesVars,
                 leagueVars, loaderVars, tokenVars>>

\* the hook of events[j] throws: nothing between the hook and the caller of
\* the command catches the error.  Lifecycle has set the mode for the hook
\* and does not reach executeIncoming(); Lifecycle.beforeUpdate or
\* afterUpdate, Diff.apply, Renderer.update, Dispatcher.execute and the
\* command wrapper end there, so that root.state, assigned before
\* Renderer.update, the tree and the level, the queue and the timers of the
\* dispatcher stay as they are.
Unwound(heap, events, j) ==
  /\ log' = log \o SubSeq(events, 1, j)
  /\ hist' = Record(hist, SubSeq(events, 1, j))
  /\ mode' = IF events[j].during # "" THEN events[j].during
             ELSE RunHooks([mode |-> mode, queue |-> queue, level |-> level,
                            immediate |-> 0], heap, SubSeq(events, 1, j - 1)).mode
  /\ thrown' = HookError
  /\ phase' = "idle" /\ idx' = 0 /\ calls' = <<>>
  /\ nodes' = heap
  /\ UNCHANGED <<state, patches, rendered, cycles, queue, level, timers, pending,
                 hooked, cascaded, dropped, raisedAt, resolved, origin, movesVars,
                 leagueVars, loaderVars, tokenVars>>

\* a round of the loop of Lifecycle.beforeUpdate(patches) in which a hook
\* throws: no patch has been applied
BeforePatchThrows ==
  /\ phase = "before"
  /\ LET events == beforePatchApplied(nodes, patches[idx + 1])
     IN /\ Thrower(nodes, events) # 0
        /\ Unwound(nodes, events, Thrower(nodes, events))

\* a round of the loop of Lifecycle.afterUpdate(patches) in which a hook
\* throws: every patch has been applied.  The hooks that throw are those of
\* nodes created, attached or updated, which Lifecycle reaches after it has
\* detached the nodes the patch has displaced.
AfterPatchThrows ==
  /\ phase = "after"
  /\ LET patch == Reverse(patches)[idx + 1]
         events == afterPatchApplied(nodes, patch)
     IN /\ Thrower(nodes, events) # 0
        /\ Unwound(afterPatchHeap(nodes, patch), events, Thrower(nodes, events))

\* one round of the loop of Lifecycle.beforeUpdate(patches)
BeforePatch ==
  /\ phase = "before"
  /\ Thrower(nodes, beforePatchApplied(nodes, patches[idx + 1])) = 0
  /\ LET events == beforePatchApplied(nodes, patches[idx + 1])
     IN /\ log' = log \o events
        /\ hist' = Record(hist, events)
        /\ \E d \in {RunHooks([mode |-> mode, queue |-> queue, level |-> level,
                                immediate |-> 0], nodes, events)} :
             mode' = d.mode /\ queue' = d.queue /\ level' = d.level
  /\ IF idx + 1 < Len(patches)
       THEN idx' = idx + 1 /\ UNCHANGED phase
       ELSE idx' = 0 /\ phase' = "apply"
  /\ UNCHANGED <<nodes, state, patches, rendered, cycles, timers, pending, calls,
                 hooked, thrown, cascaded, dropped, raisedAt, resolved, origin,
                 movesVars,
                 leagueVars, loaderVars, tokenVars>>

\* one round of the loop of Diff.apply() over the patches
ApplyPatch ==
  /\ phase = "apply"
  /\ nodes' = applyPatch(nodes, patches[idx + 1])
  /\ log' = Append(log, ApplyEvent(idx + 1))
  /\ IF idx + 1 < Len(patches)
       THEN idx' = idx + 1 /\ UNCHANGED phase
       ELSE idx' = 0 /\ phase' = "after"
  /\ UNCHANGED <<state, mode, patches, hist, rendered, cycles, dispVars, origin, movesVars,
                 leagueVars, loaderVars, tokenVars>>

\* one round of the loop of Lifecycle.afterUpdate(patches) over the reversed
\* patches.  The last round ends the update cycle and with it the calls of
\* execute in progress, unless the last hook, the onAttached of the root,
\* which Lifecycle.onRootAttached invokes without a change of mode, has
\* dispatched a command in execute mode: the wrapper executes it before the
\* hook returns.
AfterPatch ==
  /\ phase = "after"
  /\ Thrower(nodes, afterPatchApplied(nodes, Reverse(patches)[idx + 1])) = 0
  /\ UNCHANGED cycles
  /\ LET patch == Reverse(patches)[idx + 1]
         events == afterPatchApplied(nodes, patch)
         heap == afterPatchHeap(nodes, patch)
     IN \E d \in {RunHooks([mode |-> mode, queue |-> queue, level |-> level,
                            immediate |-> 0], nodes, events)} :
          /\ mode' = d.mode
          /\ IF idx + 1 < Len(patches)
               THEN /\ log' = log \o events
                    /\ hist' = Record(hist, events)
                    /\ nodes' = heap
                    /\ idx' = idx + 1
                    /\ queue' = d.queue
                    /\ level' = d.level
                    /\ UNCHANGED <<state, phase, patches, rendered, calls, timers, thrown,
                                   raisedAt, resolved>>
               ELSE IF d.immediate = 0
                 THEN /\ log' = log \o events
                      /\ hist' = Record(hist, events)
                      /\ Finished(heap, Returned(Dispatcher(d.queue, d.level, timers), calls))
                      /\ UNCHANGED <<state, patches, rendered>>
               ELSE Execute(Bump, Record(hist, events), Append(calls, "wrapper"),
                            d.queue, d.level, timers)
  /\ UNCHANGED <<pending, hooked, cascaded, dropped, origin, movesVars,
                 leagueVars, loaderVars, tokenVars>>

Next ==
  \/ \E initial \in Inputs : Mount(initial)
  \/ \E next \in Inputs : Dispatch(next)
  \/ BeforePatch
  \/ ApplyPatch
  \/ AfterPatch

Spec == Init /\ [][Next]_vars

NextDispatch ==
  \/ \E initial \in Inputs : Mount(initial)
  \/ \E next \in Inputs : Dispatch(next)
  \/ BeforePatch
  \/ ApplyPatch
  \/ AfterPatch
  \/ Flush

SpecDispatch == InitDispatch /\ [][NextDispatch]_vars

-----------------------------------------------------------------------------
(* SpecThrow: the update cycles of a root one hook of which throws *)

\* the hook that throws: one of the root or of the component B, reached
\* before the patches are applied or after
ThrowChoices ==
  {[hook |-> h, cls |-> c, throws |-> TRUE] :
     h \in {"onCreated", "onAttached", "onPropsReceived", "onUpdated",
            "onDestroyed"},
     c \in {"R", "B"}}

InitThrow == Constructed /\ hooked \in ThrowChoices

NextThrow ==
  \/ \E initial \in Inputs : Mount(initial)
  \/ \E next \in Inputs : Dispatch(next)
  \/ BeforePatch
  \/ BeforePatchThrows
  \/ ApplyPatch
  \/ AfterPatch
  \/ AfterPatchThrows

SpecThrow == InitThrow /\ [][NextThrow]_vars

-----------------------------------------------------------------------------
(* SpecNested: the update cycles of a root that nests the web component W *)

\* the items of the states of the root: a nested root and a component
NestedItems == {[key |-> 1, cls |-> "W"], [key |-> 2, cls |-> "B"]}

NestedStates ==
  {[present |-> TRUE, items |-> items, v |-> v] :
     items \in UNION {{s \in [1..n -> NestedItems] :
                         \A i, j \in 1..n : i # j => s[i] # s[j]} : n \in 0..2},
     v \in 0..MaxV}

\* WebComponent.init() of a nested root once getInitialState has resolved:
\* this.setState(state) runs the first update cycle of the root on its own
\* dispatcher, then this.isInitialized = true.  No update reaches the root
\* before, so that there is no pendingDescription to hand over.
InitNested(root) ==
  /\ phase = "idle"
  /\ root \in Uninitialized
  /\ nodes' = [executeNested(nodes, root,
                              getUpdatedState(nodes[root].description.props, NoState))
                 EXCEPT ![root].isInitialized = TRUE]
  /\ hist' = hist \o [i \in 1..(Len(nodes') - Len(nodes)) |-> <<>>]
  /\ UNCHANGED <<state, mode, patches, phase, idx, log, rendered, cycles, dispVars,
                 origin, movesVars, leagueVars, loaderVars, tokenVars>>

\* the nested roots whose custom element is out of the document
Disconnected ==
  {n \in 2..Len(nodes) : /\ isRoot(nodes[n]) /\ nodes[n].ref.present
                          /\ n \notin Subtree(nodes, Root)}

\* ComponentElement.destroy(), by the timer that disconnectedCallback has
\* set: Lifecycle.onComponentDestroyed(root) with root.destroy(), then
\* Lifecycle.onComponentDetached(root), then root.ref = null
DestroyNested(root) ==
  /\ phase = "idle"
  /\ root \in Disconnected \ Uninitialized
  /\ nodes' = [n \in 1..Len(nodes) |->
                 IF n = root
                   THEN [nodes[n] EXCEPT
                           !.own = @ \o onComponentDestroyed(nodes, root)
                                     \o onComponentDetached(nodes, root),
                           !.parentNode = NoNode, !.ref = NoRef]
                 ELSE IF n \in Unlinked(nodes, nodes[root].content)
                   THEN [nodes[n] EXCEPT !.parentNode = NoNode]
                 ELSE nodes[n]]
  /\ UNCHANGED <<state, mode, patches, phase, idx, log, hist, rendered, cycles,
                 dispVars, origin, movesVars, leagueVars, loaderVars, tokenVars>>

NextNested ==
  \/ \E initial \in NestedStates : Mount(initial)
  \/ \E next \in NestedStates : Dispatch(next)
  \/ \E root \in Uninitialized : InitNested(root)
  \/ \E root \in Disconnected : DestroyNested(root)
  \/ BeforePatch
  \/ ApplyPatch
  \/ AfterPatch

SpecNested == Init /\ [][NextNested]_vars

-----------------------------------------------------------------------------
(* Claims on the Reconciler, checked under SpecMoves *)

KeySet(keys) == {keys[i] : i \in 1..Len(keys)}

MovesNamed(name) == {i \in 1..Len(moves) : moves[i].name = name}

\* the alignment part of the returned list: what follows the removes and inserts
Alignment == SubSeq(moves, Cardinality(MovesNamed(REMOVE) \cup MovesNamed(INSERT)) + 1,
                    Len(moves))

\* the source order after the removes and inserts, which the alignments start from
Edited == MakeAll(Removals(source, target) \o Insertions(source, target), source)

ForwardMoves == calculateIndexChanges(Edited, target, FALSE)
ReversedMoves == calculateIndexChanges(Edited, target, TRUE)

Relocates(ms, key) == \E i \in 1..Len(ms) : ms[i].name = MOVE /\ ms[i].item = key

\* C2: making the returned moves, in order, on a copy of the source list
\* yields exactly the target list.
C2_ReplayYieldsTarget == Replayed => work = target

C2_Witness ==
  /\ Replayed /\ work = target
  /\ MovesNamed(REMOVE) # {} /\ MovesNamed(INSERT) # {} /\ MovesNamed(MOVE) # {}

Rank(name) == CASE name = REMOVE -> 0 [] name = INSERT -> 1 [] name = MOVE -> 2

\* C3: one remove per key only in source, one insert per key only in target,
\* removes before inserts before moves; a permutation gets no insert and no
\* remove and at most as many moves as removing and re-inserting every item.
C3_EditsAreTheKeyDifference ==
  pos >= 0 =>
    /\ {moves[i].item : i \in MovesNamed(REMOVE)} = KeySet(source) \ KeySet(target)
    /\ Cardinality(MovesNamed(REMOVE)) = Cardinality(KeySet(source) \ KeySet(target))
    /\ {moves[i].item : i \in MovesNamed(INSERT)} = KeySet(target) \ KeySet(source)
    /\ Cardinality(MovesNamed(INSERT)) = Cardinality(KeySet(target) \ KeySet(source))
    /\ \A i, j \in 1..Len(moves) : i < j => Rank(moves[i].name) <= Rank(moves[j].name)
    /\ (KeySet(source) = KeySet(target)
          => /\ MovesNamed(REMOVE) = {} /\ MovesNamed(INSERT) = {}
             /\ Len(moves) <= 2 * Len(source))

C3_Witness ==
  /\ pos >= 0 /\ source = <<1, 2, 3, 4>> /\ target = <<2, 1, 4, 3>>
  /\ Len(moves) = 2 /\ MovesNamed(MOVE) = {1, 2}

TieWithOneRelocation ==
  /\ pos >= 0 /\ favored # NoKey /\ Edited # target
  /\ Len(ForwardMoves) = Len(ReversedMoves)
  /\ Relocates(ForwardMoves, favored) # Relocates(ReversedMoves, favored)

\* C4 as stated: on a tie in which only one alignment relocates the favored
\* key, the returned alignment leaves the favored key where it is.
C4_TieKeepsFavoredStationary ==
  TieWithOneRelocation => ~Relocates(moves, favored)

\* C4 as the code has it: on a tie the reversed alignment is returned, whether
\* or not it relocates the favored key, unless both alignments are a single
\* move and the forward one moves the favored key (or no favored key is given);
\* so with one move each the returned move is the one that moves the favored key.
C4_TieReturnsReversedOrFavoredMove ==
  (pos >= 0 /\ Edited # target /\ Len(ForwardMoves) = Len(ReversedMoves)) =>
    /\ Alignment = IF Len(ForwardMoves) = 1
                       /\ (favored = NoKey \/ ForwardMoves[1].item = favored)
                    THEN ForwardMoves ELSE ReversedMoves
    /\ (TieWithOneRelocation /\ Len(ForwardMoves) = 1 => Relocates(moves, favored))

C4_Witness ==
  /\ TieWithOneRelocation /\ Len(ForwardMoves) = 1
  /\ ~Relocates(ForwardMoves, favored) /\ Relocates(moves, favored)

\* C5: for source [a,b,c], target [c,a,b] and favored key b no returned move
\* has b as its item.
C5_FavoredExampleNotMoved ==
  (pos >= 0 /\ source = <<1, 2, 3>> /\ target = <<3, 1, 2>> /\ favored = 2) =>
    \A i \in 1..Len(moves) : moves[i].item # 2

C5_Witness ==
  /\ source = <<1, 2, 3>> /\ target = <<3, 1, 2>> /\ favored = 2
  /\ pos = 1 /\ moves = <<MoveMove(3, 2, 0)>> /\ work = target

-----------------------------------------------------------------------------
(* Claims on the update cycle, checked under Spec *)

\* the non-root components
Components == {n \in 1..Len(nodes) : nodes[n].nodeType = "component"}

\* the non-root components strictly below a node
ComponentsBelow(node) == (Subtree(nodes, node) \cap Components) \ {node}

\* the positions of the log at which a hook was invoked on a node
Calls(hook, node) ==
  {i \in 1..Len(log) :
     log[i].kind = "hook" /\ log[i].hook = hook /\ log[i].node = node}

\* the positions of the log at which a patch was applied
Applications == {i \in 1..Len(log) : log[i].kind = "apply"}

\* the patches of the cycle that displace a subtree and put one in its place
Replacements ==
  {i \in 1..Len(patches) : patches[i].type \in {REPLACE_CHILD, SET_CONTENT}}

\* C1: a command whose next state deep-equals the present previous state adds
\* no patch, renders no component, invokes no hook and leaves the node tree
\* as it is.
C1_EqualStateYieldsNoPatch ==
  [][(phase = "idle" /\ mode = EXECUTE /\ cycles' # cycles
      /\ state.present /\ state' = state)
     => (patches' = <<>> /\ rendered' = <<>> /\ log' = <<>> /\ phase' = "idle"
         /\ nodes' = nodes /\ hist' = hist)]_vars

C1_Witness ==
  /\ phase = "idle" /\ mode = EXECUTE /\ cycles >= 1 /\ state.items # <<>>
  /\ patches = <<>> /\ rendered = <<>> /\ log = <<>>

\* the lifecycle state machine as stated
StageAsStated(stage, hook) ==
  CASE stage = "uninitialized" /\ hook = "onCreated" -> "created"
    [] stage = "created" /\ hook = "onAttached" -> "attached"
    [] stage = "attached" /\ hook \in {"onPropsReceived", "onUpdated"} -> "attached"
    [] stage = "attached" /\ hook = "onDetached" -> "detached"
    [] stage = "detached" /\ hook = "onDestroyed" -> "destroyed"
    [] OTHER -> "out of order"

\* the lifecycle state machine with onDestroyed ahead of onDetached
StageAsAmended(stage, hook) ==
  CASE stage = "uninitialized" /\ hook = "onCreated" -> "created"
    [] stage = "created" /\ hook = "onAttached" -> "attached"
    [] stage = "attached" /\ hook \in {"onPropsReceived", "onUpdated"} -> "attached"
    [] stage = "attached" /\ hook = "onDestroyed" -> "destroyed"
    [] stage = "destroyed" /\ hook = "onDetached" -> "detached"
    [] OTHER -> "out of order"

RECURSIVE StageAfter(_, _, _)
\* the stage a history of hooks leads to
StageAfter(stage, hooks, amended) ==
  IF hooks = <<>> THEN stage
  ELSE StageAfter(IF amended THEN StageAsAmended(stage, hooks[1])
                  ELSE StageAsStated(stage, hooks[1]),
                  Tail(hooks), amended)

\* C6 as stated: the hooks of every non-root component follow
\* created -> attached -> (updated)* -> detached -> destroyed.
C6_DetachedThenDestroyed ==
  \A n \in Components : StageAfter("uninitialized", hist[n], FALSE) # "out of order"

\* C6 as the code has it: the hooks of every non-root component follow
\* created -> attached -> (updated)* -> destroyed -> detached: onDestroyed
\* precedes onDetached and no hook is invoked after onDetached.
C6_DestroyedThenDetached ==
  \A n \in Components : StageAfter("uninitialized", hist[n], TRUE) # "out of order"

C6_Witness ==
  \E n \in Components :
    hist[n] = <<"onCreated", "onAttached", "onPropsReceived", "onUpdated",
                "onDestroyed", "onDetached">>

\* C7: in a created subtree onCreated reaches a component before the
\* components below it and before any patch is applied; onAttached reaches a
\* component after the components below it and after every patch was applied;
\* at the end of the cycle every created component has been attached.
C7_CreatedDownAttachedUp ==
  /\ \A n \in 1..Len(nodes) :
       /\ \A i \in Calls("onCreated", n) : \A j \in Applications : i < j
       /\ \A i \in Calls("onAttached", n) :
            Cardinality({j \in Applications : j < i}) = Len(patches)
       /\ phase = "idle" /\ Calls("onCreated", n) # {} => Calls("onAttached", n) # {}
  /\ \A a \in 1..Len(nodes) : \A d \in ComponentsBelow(a) :
       /\ \A i \in Calls("onCreated", a) : \A j \in Calls("onCreated", d) : i < j
       /\ \A i \in Calls("onAttached", a) : \A j \in Calls("onAttached", d) : j < i

C7_Witness ==
  /\ phase = "idle"
  /\ \E a \in Components : \E d \in ComponentsBelow(a) :
       /\ Calls("onCreated", a) # {} /\ Calls("onCreated", d) # {}
       /\ Calls("onAttached", a) # {} /\ Calls("onAttached", d) # {}

\* C8: onDetached reaches a component of a displaced subtree only after
\* onDetached and onDestroyed have reached every component below it.
C8_DetachedAfterDescendants ==
  \A n \in Components : \A i \in Calls("onDetached", n) : \A d \in ComponentsBelow(n) :
    /\ \E j \in Calls("onDetached", d) : j < i
    /\ \E j \in Calls("onDestroyed", d) : j < i

C8_Witness ==
  \E n \in Components :
    Calls("onDetached", n) # {} /\ ComponentsBelow(n) # {}

\* C9 as stated: the onDetached hooks of a displaced subtree come after the
\* onAttached hooks of the subtree that replaces it.
C9_DetachedAfterReplacementAttached ==
  \A p \in Replacements :
    \A x \in Subtree(nodes, patches[p].child) : \A y \in Subtree(nodes, patches[p].node) :
      \A i \in Calls("onDetached", x) : \A j \in Calls("onAttached", y) : j < i

\* C9 as the code has it: the onDetached hooks of a displaced subtree come
\* before the onAttached hooks of the subtree that replaces it, and both come
\* after the patches have been applied.
C9_DetachedBeforeReplacementAttached ==
  \A p \in Replacements :
    \A x \in Subtree(nodes, patches[p].child) : \A y \in Subtree(nodes, patches[p].node) :
      /\ \A i \in Calls("onDetached", x) : \A j \in Calls("onAttached", y) : i < j
      /\ \A i \in Calls("onDetached", x) \cup Calls("onAttached", y) :
           Cardinality({j \in Applications : j < i}) = Len(patches)

C9_Witness ==
  \E p \in Replacements :
    \E x \in Subtree(nodes, patches[p].child) : \E y \in Subtree(nodes, patches[p].node) :
      Calls("onDetached", x) # {} /\ Calls("onAttached", y) # {}

\* C10: the onDestroyed hooks of a displaced subtree come before the onCreated
\* hooks of the subtree that replaces it, and both before a patch is applied.
C10_DestroyedBeforeReplacementCreated ==
  \A p \in Replacements :
    \A x \in Subtree(nodes, patches[p].child) : \A y \in Subtree(nodes, patches[p].node) :
      /\ \A i \in Calls("onDestroyed", x) : \A j \in Calls("onCreated", y) : i < j
      /\ \A i \in Calls("onDestroyed", x) \cup Calls("onCreated", y) :
           \A j \in Applications : i < j

C10_Witness ==
  /\ phase = "after"
  /\ \E p \in Replacements :
       \E x \in Subtree(nodes, patches[p].child) : \E y \in Subtree(nodes, patches[p].node) :
         Calls("onDestroyed", x) # {} /\ Calls("onCreated", y) # {}

-----------------------------------------------------------------------------
(* SpecElement: Diff.elementPatches and Diff.apply on one element *)

\* the node of the element; its children follow it
Element == 1

\* the listeners of the application: functions, two wrappers of one
\* function and a wrapper of another
Listeners == 1..(MaxV + 3)

\* the maps with keys among the keys given, listed in their order
MapsOver(keys, values) ==
  {LET Test(e) == e.value # Undefined
   IN SelectSeq([i \in 1..Len(keys) |-> [key |-> keys[i], value |-> f[i]]], Test) :
     f \in [1..Len(keys) -> values \cup {Undefined}]}

Div == ElementDescription("div", NoKey, <<>>)

\* the element descriptions of the tag: standard and custom attributes,
\* class and style, standard and custom listeners, data attributes and
\* properties, and an attribute with a text child
Descriptions ==
  {[Div EXCEPT !.attrs = a, !.custom.attrs = c] :
     a \in MapsOver(<<"id", "title", "tabIndex">>, 1..MaxV),
     c \in MapsOver(<<"title">>, 1..MaxV)}
  \cup {[Div EXCEPT !.class = k, !.style = m] :
          k \in {"", "c"}, m \in MapsOver(<<"color", "width">>, 1..MaxV)}
  \cup {[Div EXCEPT !.listeners = l, !.custom.listeners = c] :
          l \in MapsOver(<<"onClick">>, Listeners),
          c \in MapsOver(<<"click">>, Listeners)}
  \cup {[Div EXCEPT !.dataset = d, !.properties = q] :
          d \in MapsOver(<<"foo">>, 1..MaxV), q \in MapsOver(<<"value">>, 1..MaxV)}
  \cup {[Div EXCEPT !.attrs = a, !.children = ch] :
          a \in MapsOver(<<"id">>, 1..MaxV),
          ch \in {<<>>, <<TextDescription("A")>>, <<TextDescription("B")>>}}

\* new VirtualElement(description, null, null) for a description of the tag
InitElement ==
  /\ origin \in Descriptions
  /\ nodes = createFromDescription(NewDiff(<<>>), origin, NoNode).nodes
  /\ state = NoState
  /\ mode = EXECUTE
  /\ phase = "element"
  /\ patches = <<>>
  /\ idx = 0
  /\ log = <<>>
  /\ hist = <<>>
  /\ rendered = <<>>
  /\ cycles = 0
  /\ queue = <<>>
  /\ level = 0
  /\ timers = <<>>
  /\ pending = <<>>
  /\ calls = <<>>
  /\ hooked = NoHook
  /\ thrown = ""
  /\ cascaded = 0
  /\ dropped = 0
  /\ raisedAt = -1
  /\ resolved = 0
  /\ MovesUnused
  /\ LeagueUnused
  /\ LoaderUnused
  /\ TokensUnused

\* diff.elementPatches(element, description) followed by diff.apply()
Patched(diff) ==
  /\ patches' = diff.patches
  /\ nodes' = afterUpdate(applyAll(diff.nodes, diff.patches), diff.patches)
  /\ cycles' = cycles + 1
  /\ UNCHANGED <<state, mode, phase, idx, log, hist, rendered, dispVars, origin,
                 movesVars,
                 leagueVars, loaderVars, tokenVars>>

\* the element is diffed against a second description and patched
Update(description) ==
  /\ phase = "element" /\ cycles = 0
  /\ Patched(elementPatches(NewDiff(nodes), Element, description))

\* the element is diffed against its first description and patched
Revert ==
  /\ phase = "element" /\ cycles = 1
  /\ Patched(elementPatches(NewDiff(nodes), Element, origin))

NextElement ==
  \/ \E description \in Descriptions : Update(description)
  \/ Revert

SpecElement == InitElement /\ [][NextElement]_vars

-----------------------------------------------------------------------------
(* SpecListeners: an element with listeners through a series of updates *)

MaxListens == 3

\* the descriptions of the tag with standard and custom listeners
ListenerDescriptions ==
  {[Div EXCEPT !.listeners = l, !.custom.listeners = c] :
     l \in MapsOver(<<"onClick">>, Listeners),
     c \in MapsOver(<<"click">>, Listeners)}

InitListeners == InitElement /\ origin \in ListenerDescriptions

\* the element is diffed against the description of the next rendering and
\* patched
Listen(description) ==
  /\ phase = "element" /\ cycles < MaxListens
  /\ Patched(elementPatches(NewDiff(nodes), Element, description))

NextListeners == \E description \in ListenerDescriptions : Listen(description)

SpecListeners == InitListeners /\ [][NextListeners]_vars

-----------------------------------------------------------------------------
(* SpecChildren: patch.apply() of the child patches on one element *)

MaxApplied == 2

\* the texts of the children an element is constructed with
ChildTexts ==
  {<<>>} \cup {<<a>> : a \in {"A", "B", "C"}}
    \cup {<<a, b>> : a \in {"A", "B", "C"}, b \in {"A", "B", "C"}}

\* the text nodes constructed outside the element: parentNode is null and the
\* handle has no parent either
Loose(heap) == {n \in 1..Len(heap) : n # Element /\ heap[n].parentNode = NoNode}

\* new VirtualElement(description, null, null) for a description with text
\* children, and two text nodes constructed on their own
InitChildren ==
  /\ origin \in {[Div EXCEPT !.children = [i \in 1..Len(texts) |-> TextDescription(texts[i])]] :
                   texts \in ChildTexts}
  /\ nodes = createFromDescription(NewDiff(<<>>), origin, NoNode).nodes
               \o <<NewNode("text", TextDescription("X"), NoNode),
                    NewNode("text", TextDescription("Y"), NoNode)>>
  /\ state = NoState
  /\ mode = EXECUTE
  /\ phase = "children"
  /\ patches = <<>>
  /\ idx = 0
  /\ log = <<>>
  /\ hist = <<>>
  /\ rendered = <<>>
  /\ cycles = 0
  /\ queue = <<>>
  /\ level = 0
  /\ timers = <<>>
  /\ pending = <<>>
  /\ calls = <<>>
  /\ hooked = NoHook
  /\ thrown = ""
  /\ cascaded = 0
  /\ dropped = 0
  /\ raisedAt = -1
  /\ resolved = 0
  /\ MovesUnused
  /\ LeagueUnused
  /\ LoaderUnused
  /\ TokensUnused

\* what patch.apply() of a child patch throws: this.children is undefined on
\* an element without children, so reading from it is a TypeError before
\* anything is assigned; opr.Toolkit.assert is console.assert and returns;
\* ref.removeChild, reached by moveChild and removeChild after the splices,
\* throws for a handle that is not a child of the handle of the element
errorOf(heap, patch) ==
  IF heap[patch.parent].children = <<>> THEN "TypeError"
  ELSE IF /\ patch.type \in {MOVE_CHILD, REMOVE_CHILD}
          /\ ~Includes(heap[patch.parent].children, patch.child)
         THEN "NotFoundError"
         ELSE ""

\* the heap patch.apply() leaves, also when it throws
applied(heap, patch) ==
  IF errorOf(heap, patch) = "TypeError" THEN heap ELSE applyPatch(heap, patch)

\* patch.apply() of a child patch made for the element
Apply(patch) ==
  /\ phase = "children" /\ cycles < MaxApplied
  /\ patches' = <<patch>>
  /\ nodes' = applied(nodes, patch)
  /\ thrown' = errorOf(nodes, patch)
  /\ cycles' = cycles + 1
  /\ UNCHANGED <<state, mode, phase, idx, log, hist, rendered, queue, level,
                 timers, pending, calls, hooked, cascaded, dropped, raisedAt, resolved,
                 origin,
                 movesVars,
                 leagueVars, loaderVars, tokenVars>>

ReplaceChild(child, node) == Apply(replaceChild(child, node, Element))

MoveChild(child, from, to) == Apply(moveChild(child, from, to, Element))

RemoveChild(child, at) == Apply(removeChild(child, at, Element))

NextChildren ==
  \/ \E child \in 2..Len(nodes) : \E node \in Loose(nodes) \ {child} :
       ReplaceChild(child, node)
  \/ \E child \in 2..Len(nodes) : \E from \in 0..2 : \E to \in 0..2 :
       MoveChild(child, from, to)
  \/ \E child \in 2..Len(nodes) : \E at \in 0..2 : RemoveChild(child, at)

SpecChildren == InitChildren /\ [][NextChildren]_vars

-----------------------------------------------------------------------------
(* SpecList: Diff.elementPatches and Diff.apply on an element with children *)

\* most children of the element
MaxChildren == 3

\* children without a key: an item, an item with a class, a text
UnkeyedChildren ==
  {ElementDescription("li", NoKey, <<>>),
   [ElementDescription("li", NoKey, <<>>) EXCEPT !.class = "c"],
   TextDescription("t")}

\* children with a key: an item, a component that renders nothing, a
\* component that renders an element
KeyedChildren ==
  UNION {{ElementDescription("li", k, <<>>),
          ComponentDescription("B", k, Props(<<>>, 0)),
          ComponentDescription("B", k, Props(<<>>, 1))} : k \in 1..MaxChildren}

\* the lists of children: all without keys, or with distinct keys after at
\* most one text
ChildLists ==
  UNION {[1..n -> UnkeyedChildren] : n \in 0..MaxChildren}
    \cup UNION {{s \in [1..n -> KeyedChildren] :
                   \A i, j \in 1..n : i # j => s[i].key # s[j].key} :
                n \in 1..MaxChildren}
    \cup UNION {{<<TextDescription("t")>> \o s :
                   s \in {q \in [1..n -> KeyedChildren] :
                            \A i, j \in 1..n : i # j => q[i].key # q[j].key}} :
                n \in 1..(MaxChildren - 1)}

ListOf(children) == ElementDescription("ul", NoKey, children)

\* new VirtualElement(description, null, null) for a list
InitList ==
  /\ origin \in {ListOf(children) : children \in ChildLists}
  /\ nodes = createFromDescription(NewDiff(<<>>), origin, NoNode).nodes
  /\ state = NoState
  /\ mode = EXECUTE
  /\ phase = "list"
  /\ patches = <<>>
  /\ idx = 0
  /\ log = <<>>
  /\ hist = <<>>
  /\ rendered = <<>>
  /\ cycles = 0
  /\ queue = <<>>
  /\ level = 0
  /\ timers = <<>>
  /\ pending = <<>>
  /\ calls = <<>>
  /\ hooked = NoHook
  /\ thrown = ""
  /\ cascaded = 0
  /\ dropped = 0
  /\ raisedAt = -1
  /\ resolved = 0
  /\ MovesUnused
  /\ LeagueUnused
  /\ LoaderUnused
  /\ TokensUnused

\* diff.elementPatches(element, description) and Diff.apply() up to the
\* loop over the patches: Lifecycle.beforeUpdate(patches)
Diffed(diff) ==
  /\ patches' = diff.patches
  /\ nodes' = diff.nodes
  /\ log' = beforeEvents(diff.nodes, diff.patches)
  /\ phase' = IF diff.patches = <<>> THEN "patched" ELSE "patching"
  /\ UNCHANGED <<state, mode, idx, hist, rendered, cycles, dispVars, origin,
                 movesVars, leagueVars, loaderVars, tokenVars>>

\* the element is diffed against a second list
UpdateList(description) ==
  /\ phase = "list"
  /\ Diffed(elementPatches(NewDiff(nodes), Element, description))

\* one round of the loop of Diff.apply() over the patches; after the last
\* round Lifecycle.afterUpdate(patches)
ApplyNext ==
  /\ phase = "patching"
  /\ IF idx + 1 < Len(patches)
       THEN /\ nodes' = applyPatch(nodes, patches[idx + 1])
            /\ idx' = idx + 1
            /\ UNCHANGED <<phase, log>>
       ELSE /\ nodes' = afterUpdate(applyPatch(nodes, patches[idx + 1]), patches)
            /\ log' = log \o afterEvents(applyPatch(nodes, patches[idx + 1]), patches)
            /\ idx' = 0
            /\ phase' = "patched"
  /\ UNCHANGED <<state, mode, patches, hist, rendered, cycles, dispVars, origin,
                 movesVars, leagueVars, loaderVars, tokenVars>>

NextList ==
  \/ \E children \in ChildLists : UpdateList(ListOf(children))
  \/ ApplyNext

SpecList == InitList /\ [][NextList]_vars

-----------------------------------------------------------------------------
(* SpecLeague: League.calculate of server/services/league.js *)

\* most players in a list
MaxPlayers == 4
\* the scores of the players are the integers from -MaxScore to MaxScore
MaxScore == 1

pointsTable == <<5, 3, 1, 0>>

\* the names of the players, by their position in the list
PlayerNames == <<"A", "B", "C", "D", "E">>

\* the lists of players: objects with a name and an integer score
PlayerLists ==
  UNION {{[i \in 1..n |-> [name |-> PlayerNames[i], score |-> f[i]]] :
            f \in [1..n -> (-MaxScore)..MaxScore]} : n \in 0..MaxPlayers}

\* set.add(item) on the values of a Set, kept in insertion order
SetAdd(values, item) == IF Includes(values, item) THEN values ELSE Append(values, item)

RECURSIVE NewSet(_)
\* [...new Set(items)]: the distinct items in the order of their first
\* occurrence
NewSet(items) ==
  IF items = <<>> THEN <<>>
  ELSE SetAdd(NewSet(SubSeq(items, 1, Len(items) - 1)), items[Len(items)])

\* one step of a stable sort with the comparator (a, b) => b - a: the number
\* goes behind the numbers that are not smaller
InsertDescending(sorted, number) ==
  LET k == Cardinality({i \in 1..Len(sorted) : sorted[i] >= number})
  IN SubSeq(sorted, 1, k) \o <<number>> \o SubSeq(sorted, k + 1, Len(sorted))

RECURSIVE sortDescending(_)
\* numbers.sort((a, b) => b - a)
sortDescending(numbers) ==
  IF numbers = <<>> THEN <<>>
  ELSE InsertDescending(sortDescending(SubSeq(numbers, 1, Len(numbers) - 1)),
                        numbers[Len(numbers)])

\* String(player), the sort key of a sort without comparator: the same
\* string for every plain object
toString(player) == "[object Object]"

\* the strings of the model in the order of their code units
StringOrder == <<"[object Object]">>

\* one step of a stable sort by string: the item goes behind the items whose
\* string is not greater
InsertDefault(sorted, item) ==
  LET k == Cardinality({i \in 1..Len(sorted) :
                          IndexOf(StringOrder, toString(sorted[i]))
                            <= IndexOf(StringOrder, toString(item))})
  IN SubSeq(sorted, 1, k) \o <<item>> \o SubSeq(sorted, k + 1, Len(sorted))

\* a sort that reverses the items it finds equal
sortDefault_Reversed(items) == Reverse(items)

RECURSIVE sortDefault(_)
\* items.sort(): Array.prototype.sort without comparator is stable for the
\* lists of the model (insertion sort up to ten items before ES2019, stable
\* by definition since)
sortDefault(items) ==
  IF items = <<>> THEN <<>>
  ELSE InsertDefault(sortDefault(SubSeq(items, 1, Len(items) - 1)), items[Len(items)])

\* players.filter(player => player.score === score).sort()
tiedPlayers(list, score) ==
  LET Tied(player) == player.score = score
  IN sortDefault(SelectSeq(list, Tied))

\* a place that counts the scores above, not the players
place_Dense(items) == Cardinality({items[i].score : i \in 1..Len(items)}) + 1

\* const place = result.length + 1
place(items) == Len(items) + 1

\* points taken from the table by the number of scores above
points_Dense(items) ==
  At(pointsTable, Cardinality({items[i].score : i \in 1..Len(items)}))

\* const points = pointsTable[result.length]
points(items) == At(pointsTable, Len(items))

\* the items pushed for the tied players: {...player, place, points}
pushed(tied, p, q) ==
  [i \in 1..Len(tied) |->
     [name |-> tied[i].name, score |-> tied[i].score, place |-> p, points |-> q]]

RECURSIVE forScores(_, _, _)
\* the loop over the scores, from the items pushed so far
forScores(list, scores, items) ==
  IF scores = <<>> THEN items
  ELSE forScores(list, Tail(scores),
                 items \o pushed(tiedPlayers(list, Head(scores)),
                                 place(items), points(items)))

\* League.calculate(players)
League_calculate(list) ==
  forScores(list,
            sortDescending(NewSet([i \in 1..Len(list) |-> list[i].score])),
            <<>>)

InitLeague ==
  /\ players \in PlayerLists
  /\ returned = <<>>
  /\ calculated = FALSE
  /\ TreeUnused
  /\ MovesUnused
  /\ LoaderUnused
  /\ TokensUnused

\* the call of League.calculate: it reads the list and sorts only the arrays
\* it has made itself
CalculateLeague ==
  /\ ~calculated
  /\ returned' = League_calculate(players)
  /\ calculated' = TRUE
  /\ players' = players
  /\ UNCHANGED <<movesVars, treeVars, loaderVars, tokenVars>>

NextLeague == CalculateLeague

SpecLeague == InitLeague /\ [][NextLeague]_vars

-----------------------------------------------------------------------------
(* SpecLoader: calls of loader.preload on one Loader *)

\* most calls of preload
MaxPreloads == 3

\* the modules of the application: a declares d as a dependency with
\* loader.symbol, the script of x fails to load
ModuleIds == {"a", "d", "x"}
dependencies(id) == IF id = "a" THEN <<"d">> ELSE <<>>
Fails(id) == id = "x"

RECURSIVE Rejects(_, _)
\* loadWithDependencies(id) rejects: load(module) reports the error of the
\* script and report throws it, for the module or for a dependency that
\* is loaded with it
Rejects(modules, id) ==
  \/ Fails(id)
  \/ \E i \in 1..Len(dependencies(id)) :
       /\ ~modules[dependencies(id)[i]].exports
       /\ Rejects(modules, dependencies(id)[i])

RECURSIVE loadAll(_, _, _)
RECURSIVE loadWithDependencies(_, _)

\* the loop of loadWithDependencies over module.dependencies from i on
loadAll(modules, ids, i) ==
  IF i > Len(ids) THEN modules
  ELSE loadAll(IF modules[ids[i]].exports THEN modules
               ELSE loadWithDependencies(modules, ids[i]),
               ids, i + 1)

\* loader.loadWithDependencies(id) that fulfils: resolve(id) leaves the
\* module with its exports, each dependency without exports is loaded the
\* same way, then module.isLoaded = true
loadWithDependencies(modules, id) ==
  [loadAll([modules EXCEPT ![id].exports = TRUE], dependencies(id), 1)
     EXCEPT ![id].isLoaded = TRUE]

\* new Loader(): this.ready = Promise.resolve(null), an empty registry and
\* no load promise
InitLoader ==
  /\ ready = 0
  /\ released = {0}
  /\ loadPromises = [id \in ModuleIds |-> ""]
  /\ registry = [id \in ModuleIds |-> [exports |-> FALSE, isLoaded |-> FALSE]]
  /\ preloads = <<>>
  /\ TreeUnused
  /\ MovesUnused
  /\ LeagueUnused
  /\ TokensUnused

\* loader.preload(id) up to its first await: a stored load promise is
\* returned at once; else waitForLoader() replaces loader.ready by a new
\* promise and awaits the previous one
Preload(id) ==
  /\ Len(preloads) < MaxPreloads
  /\ IF loadPromises[id] # ""
       THEN /\ preloads' = Append(preloads, [id |-> id, pc |-> "shared",
                                             awaits |-> Undefined, done |-> Undefined])
            /\ UNCHANGED ready
       ELSE /\ preloads' = Append(preloads, [id |-> id, pc |-> "waiting",
                                             awaits |-> ready,
                                             done |-> Len(preloads) + 1])
            /\ ready' = Len(preloads) + 1
  /\ UNCHANGED <<released, loadPromises, registry, movesVars, treeVars, leagueVars,
                 tokenVars>>

\* preload after await this.waitForLoader(): a module that isLoaded is
\* returned, and done is not called; else the load promise is made and
\* stored
Resume(i) ==
  /\ preloads[i].pc = "waiting" /\ preloads[i].awaits \in released
  /\ IF registry[preloads[i].id].isLoaded
       THEN /\ preloads' = [preloads EXCEPT ![i].pc = "returned"]
            /\ UNCHANGED loadPromises
       ELSE /\ preloads' = [preloads EXCEPT ![i].pc = "loading"]
            /\ loadPromises' = [loadPromises EXCEPT ![preloads[i].id] = "pending"]
  /\ UNCHANGED <<ready, released, registry, movesVars, treeVars, leagueVars, tokenVars>>

\* preload after await loadPromise: done() and the return of the exports
\* once the promise is fulfilled; a rejected promise throws out of preload
\* before done()
Load(i) ==
  /\ preloads[i].pc = "loading"
  /\ IF Rejects(registry, preloads[i].id)
       THEN /\ preloads' = [preloads EXCEPT ![i].pc = "thrown"]
            /\ loadPromises' = [loadPromises EXCEPT ![preloads[i].id] = "rejected"]
            /\ UNCHANGED <<released, registry>>
       ELSE /\ preloads' = [preloads EXCEPT ![i].pc = "returned"]
            /\ loadPromises' = [loadPromises EXCEPT ![preloads[i].id] = "fulfilled"]
            /\ registry' = loadWithDependencies(registry, preloads[i].id)
            /\ released' = released \cup {preloads[i].done}
  /\ UNCHANGED <<ready, movesVars, treeVars, leagueVars, tokenVars>>

NextLoader ==
  \/ \E id \in ModuleIds : Preload(id)
  \/ \E i \in 1..Len(preloads) : Resume(i)
  \/ \E i \in 1..Len(preloads) : Load(i)

SpecLoader == InitLoader /\ [][NextLoader]_vars

-----------------------------------------------------------------------------
(* SpecTokens: signIn and getUserByToken on the tokens table *)

\* INTERVAL '1 hour' in ticks of the clock
Hour == 2
\* last value of the clock
MaxClock == 5
\* most calls of getUserByToken
MaxLookups == 3

\* the tokens signIn may create
Tokens == {"s", "t"}

InitTokens ==
  /\ clock = 0
  /\ rows = [t \in Tokens |-> Undefined]
  /\ lookups = <<>>
  /\ TreeUnused
  /\ MovesUnused
  /\ LeagueUnused
  /\ LoaderUnused

\* time passes
Tick ==
  /\ clock < MaxClock
  /\ clock' = clock + 1
  /\ UNCHANGED <<rows, lookups, movesVars, treeVars, leagueVars, loaderVars>>

\* Postgres.insertToken(userId, token) with the token signIn has created:
\* last_used_on defaults to CURRENT_TIMESTAMP
insertToken(token) ==
  /\ rows[token] = Undefined
  /\ rows' = [rows EXCEPT ![token] = clock]
  /\ UNCHANGED <<clock, lookups, movesVars, treeVars, leagueVars, loaderVars>>

\* the SELECT of getUserByToken(token): a row of the token with
\* NOW() < last_used_on + INTERVAL '1 hour'; without one the call returns
\* null, with one it goes on to the UPDATE
Select(token) ==
  /\ Len(lookups) < MaxLookups
  /\ LET found == rows[token] # Undefined /\ clock < rows[token] + Hour
     IN lookups' = Append(lookups,
                          [token |-> token, at |-> clock, last |-> rows[token],
                           accepted |-> found,
                           pc |-> IF found THEN "update" ELSE "done"])
  /\ UNCHANGED <<clock, rows, movesVars, treeVars, leagueVars, loaderVars>>

\* the UPDATE of getUserByToken, a query of its own after the SELECT has
\* been awaited: last_used_on = NOW() for the rows of the token
UpdateToken(i) ==
  /\ lookups[i].pc = "update"
  /\ rows' = [rows EXCEPT ![lookups[i].token] = clock]
  /\ lookups' = [lookups EXCEPT ![i].pc = "done"]
  /\ UNCHANGED <<clock, movesVars, treeVars, leagueVars, loaderVars>>

NextTokens ==
  \/ Tick
  \/ \E token \in Tokens : insertToken(token)
  \/ \E token \in Tokens : Select(token)
  \/ \E i \in 1..Len(lookups) : UpdateToken(i)

SpecTokens == InitTokens /\ [][NextTokens]_vars

\* the patch concerns the node or a node below it: it updates one of them or
\* changes the children or the content of one of them
Concerns(patch, node) ==
  \/ patch.type = UPDATE_NODE /\ patch.node \in Subtree(nodes, node)
  \/ /\ patch.type \in {INSERT_CHILD, REPLACE_CHILD, MOVE_CHILD, REMOVE_CHILD, SET_CONTENT}
     /\ patch.parent \in Subtree(nodes, node)
  \/ patch.target \in Subtree(nodes, node)

\* C15: an initialized component whose new description deep-equals the
\* description it holds is not rendered by the diff, and the diff emits no
\* patch for it or for a node below it: a component that is rendered, or that
\* a patch concerns, is given a description that differs from the one it held
C15_EqualDescriptionIsNotRendered ==
  [][(phase = "idle" /\ mode = EXECUTE) =>
       \A c \in 1..Len(nodes) :
         (isComponent(nodes[c]) /\ nodes[c].isInitialized) =>
           LET differs ==
                 \E i \in 1..Len(patches') :
                   /\ patches'[i].type = UPDATE_NODE /\ patches'[i].node = c
                   /\ patches'[i].description # nodes[c].description
           IN /\ Includes(rendered', c) => differs
              /\ \A i \in 1..Len(patches') : Concerns(patches'[i], c) => differs]_vars

\* the root has been rendered for a state in which a component keeps its
\* description: the component is not rendered, and its sibling is
C15_Witness ==
  /\ phase = "before" /\ idx = 0 /\ cycles > 0 /\ Includes(rendered, Root)
  /\ \E c \in Components :
       /\ ~Includes(rendered, c)
       /\ nodes[c].parentNode # NoNode
       /\ \E i \in 1..Len(render("R", describeRoot(nodes, Root, state).props).children) :
            render("R", describeRoot(nodes, Root, state).props).children[i] = nodes[c].description
  /\ \E c \in Components : Includes(rendered, c)

-----------------------------------------------------------------------------
(* Claims about the patches of an element, checked under SpecElement *)

\* the description the element was diffed against in the first update
Second == nodes[Element].description

\* the map diffs of elementPatches for two descriptions: the maps, the
\* patches they emit and the test that tells a changed value
MapDiffs(current, next) ==
  {[current |-> current.style, next |-> next.style, isCustom |-> FALSE,
    identity |-> FALSE,
    types |-> {"set-style-property", "remove-style-property"}],
   [current |-> current.attrs, next |-> next.attrs, isCustom |-> FALSE,
    identity |-> FALSE, types |-> {"set-attribute", "remove-attribute"}],
   [current |-> current.listeners, next |-> next.listeners, isCustom |-> FALSE,
    identity |-> TRUE,
    types |-> {"add-listener", "remove-listener", "replace-listener"}],
   [current |-> current.dataset, next |-> next.dataset, isCustom |-> FALSE,
    identity |-> FALSE,
    types |-> {"set-data-attribute", "remove-data-attribute"}],
   [current |-> current.properties, next |-> next.properties, isCustom |-> FALSE,
    identity |-> FALSE, types |-> {"set-property", "delete-property"}],
   [current |-> current.custom.attrs, next |-> next.custom.attrs,
    isCustom |-> TRUE, identity |-> FALSE,
    types |-> {"set-attribute", "remove-attribute"}],
   [current |-> current.custom.listeners, next |-> next.custom.listeners,
    isCustom |-> TRUE, identity |-> TRUE,
    types |-> {"add-listener", "remove-listener", "replace-listener"}]}

\* the patches of the cycle that a map diff has emitted
PatchesOf(m) ==
  LET Test(q) == q.type \in m.types /\ q.isCustom = m.isCustom /\ q.target = Element
  IN SelectSeq(patches, Test)

Names(keys) == {keys[i] : i \in 1..Len(keys)}

\* the keys of a map diff by what the diff is to find: added are the keys of
\* next only, removed the keys of current only, changed the keys of both
\* whose values differ, listeners being compared by their underlying identity
AddedKeys(m) == Names(ObjectKeys(m.next)) \ Names(ObjectKeys(m.current))
RemovedKeys(m) == Names(ObjectKeys(m.current)) \ Names(ObjectKeys(m.next))
SharedKeys(m) == Names(ObjectKeys(m.current)) \cap Names(ObjectKeys(m.next))
ChangedKeys(m) ==
  {k \in SharedKeys(m) :
     IF m.identity THEN ListenerChanged(Get(m.current, k), Get(m.next, k))
     ELSE Get(m.current, k) # Get(m.next, k)}

\* added keys rank before removed keys, and these before changed keys
KeyRank(m, k) == IF k \in AddedKeys(m) THEN 1 ELSE IF k \in RemovedKeys(m) THEN 2 ELSE 3

\* C14: in every map diff of an element (style, attributes, listeners, data
\* attributes, properties, custom attributes and listeners) the keys found
\* added, removed and changed are pairwise disjoint sets, every such key
\* yields exactly one patch and no other key yields one, the patches of the
\* added keys come before those of the removed keys and these before those of
\* the changed keys, and a key whose value is equal in both maps yields none
C14_MapDiffPatches ==
  (phase = "element" /\ cycles = 1) =>
    \A m \in MapDiffs(origin, Second) :
      LET ps == PatchesOf(m)
          found == AddedKeys(m) \cup RemovedKeys(m) \cup ChangedKeys(m)
      IN /\ AddedKeys(m) \cap RemovedKeys(m) = {}
         /\ AddedKeys(m) \cap ChangedKeys(m) = {}
         /\ RemovedKeys(m) \cap ChangedKeys(m) = {}
         /\ \A k \in found : Cardinality({i \in 1..Len(ps) : ps[i].name = k}) = 1
         /\ \A i \in 1..Len(ps) : ps[i].name \in found
         /\ \A i, j \in 1..Len(ps) : i < j => KeyRank(m, ps[i].name) <= KeyRank(m, ps[j].name)
         /\ \A k \in SharedKeys(m) :
              Get(m.current, k) = Get(m.next, k) => \A i \in 1..Len(ps) : ps[i].name # k

\* one map diff has found an added, a removed and a changed key, and has
\* passed over a key with an equal value
C14_Witness ==
  /\ phase = "element" /\ cycles = 1
  /\ \E m \in MapDiffs(origin, Second) :
       /\ AddedKeys(m) # {} /\ RemovedKeys(m) # {} /\ ChangedKeys(m) # {}
       /\ Len(PatchesOf(m)) = 3
  /\ \E m \in MapDiffs(origin, Second) :
       \E k \in SharedKeys(m) : Get(m.current, k) = Get(m.next, k)

\* the patches of the element itself and those of its child list
OwnPatch(q) == q.target = Element
ChildListPatch(q) ==
  q.parent = Element /\ q.type \in {INSERT_CHILD, REPLACE_CHILD, MOVE_CHILD, REMOVE_CHILD}

\* the two descriptions of the example: div {id: 'x'} with the text A, and
\* div {id: 'y'} with the text B
ExampleA ==
  [Div EXCEPT !.attrs = <<[key |-> "id", value |-> 1]>>,
              !.children = <<TextDescription("A")>>]
ExampleB ==
  [Div EXCEPT !.attrs = <<[key |-> "id", value |-> 2]>>,
              !.children = <<TextDescription("B")>>]

\* C16: diffing an element against a compatible description that is not
\* equal emits the patches of the element's own class name and maps first,
\* then the patches of its child list, then exactly one update-node patch
\* for the element, which is the last patch; for the example the patches are
\* exactly setAttribute('id', 'y'), the replacement of the text child and
\* updateNode(div)
C16_OwnThenChildrenThenUpdateNode ==
  (phase = "element" /\ cycles = 1 /\ Second # origin) =>
    LET n == Len(patches)
    IN /\ n >= 1
       /\ patches[n].type = UPDATE_NODE /\ patches[n].node = Element
       /\ patches[n].description = Second /\ patches[n].prevDescription = origin
       /\ \A i \in 1..(n - 1) :
            /\ patches[i].type # UPDATE_NODE
            /\ OwnPatch(patches[i]) \/ ChildListPatch(patches[i])
       /\ \A i, j \in 1..(n - 1) :
            (OwnPatch(patches[i]) /\ ChildListPatch(patches[j])) => i < j
       /\ (origin = ExampleA /\ Second = ExampleB) =>
            /\ n = 3
            /\ patches[1] = KeyPatch("set-attribute", "id", 2, Undefined, Element, FALSE)
            /\ patches[2].type = REPLACE_CHILD /\ patches[2].parent = Element
            /\ nodes[patches[2].child].description = TextDescription("A")
            /\ nodes[patches[2].node].description = TextDescription("B")

\* the example has been diffed and patched
C16_Witness ==
  /\ phase = "element" /\ cycles = 1 /\ origin = ExampleA /\ Second = ExampleB
  /\ Len(patches) = 3

\* the class name, style, attributes, data attributes and listeners of a DOM
\* element
Facade(ref) ==
  [className |-> ref.className, style |-> ref.style, attributes |-> ref.attributes,
   dataset |-> ref.dataset, listeners |-> ref.listeners]

\* C17: after an element created from A has been diffed against B and
\* patched, and then diffed against A and patched, its DOM element has the
\* class name, the style properties, the attributes, the data attributes and
\* the listeners of A
C17_RoundTripRestores ==
  (phase = "element" /\ cycles = 2) =>
    Facade(nodes[Element].ref) = Facade(createElement(origin))

-----------------------------------------------------------------------------
(* Claims about the Dispatcher, checked under SpecDispatch *)

\* nothing is scheduled and no update cycle runs
Quiescent == phase = "idle" /\ timers = <<>> /\ pending = <<>>

\* C11: a command dispatched from inside a lifecycle hook, the onCreated and
\* onAttached of the root included, is never executed while the update cycle
\* that invoked the hook is in progress: at most one call of
\* Dispatcher.execute, and so one diff and patch cycle, is active for the root
C11_OneCycleAtATime == Len(calls) <= 1

\* C12: the cascade of a root whose onUpdated dispatches a command on every
\* update ends in the error of the wrapper: once the root is mounted, the
\* dispatcher comes to rest only with 'Too many cycles' thrown
C12_CascadeEndsInError ==
  (hooked = [hook |-> "onUpdated", cls |-> "R"] /\ state.present /\ Quiescent)
    => thrown = TooManyCycles

\* C13: a command dispatched in ignore mode is dropped: the wrapper returns
\* without executing it, the state of the root, the node tree and the queue
\* are unchanged, and nothing is scheduled that would execute it later
C13_IgnoredCommandIsDropped ==
  [][(mode = IGNORE /\ cycles' # cycles)
       => /\ state' = state /\ nodes' = nodes /\ queue' = queue
          /\ timers' = timers /\ pending' = pending /\ calls' = calls
          /\ patches' = patches /\ phase' = phase /\ cascaded' = cascaded
          /\ mode' = IGNORE]_vars

\* a command was dropped after the mount, in a state that differs from it
C13_Witness == mode = IGNORE /\ dropped > 0 /\ cycles > 0 /\ phase = "idle"

-----------------------------------------------------------------------------
(* Claims about the reuse and the displacement of nodes; the claims about   *)
(* child patches are checked under SpecChildren                             *)

\* the identity of a description: its variant with the component class, tag
\* name or text, and its key
SameIdentityAndKey(a, b) == isCompatible(a, b) /\ a.key = b.key

\* C18: a node is updated in place only for a description of the same
\* variant, the same component class, tag name or text, and the same key; a
\* content whose new description differs only in key gets no update-node patch
C18_ReusedOnlyWithSameKey ==
  \A i \in 1..Len(patches) :
    patches[i].type = UPDATE_NODE =>
      SameIdentityAndKey(patches[i].prevDescription, patches[i].description)

\* C19: by the time a cycle has finished, every node it has displaced, and
\* every node below one, has its handle detached: no node outside the tree of
\* the root holds a handle
C19_DisplacedNodesAreDetached ==
  phase = "idle" =>
    \A n \in 1..Len(nodes) : n \notin Subtree(nodes, Root) => ~nodes[n].ref.present

\* the child patch names a node that is not a child of its parent, or not
\* the child at the position it names
Misapplied(heap, patch) ==
  LET children == heap[patch.parent].children
  IN IF patch.type = MOVE_CHILD
       THEN ~(patch.from < Len(children) /\ children[patch.from + 1] = patch.child)
       ELSE ~Includes(children, patch.child)

\* C20: a replace-child, move-child or remove-child patch for a node that is
\* not a child of the parent, or not at the position named, throws and leaves
\* the children of the parent as they were
C20_MisappliedPatchThrows ==
  [][(phase = "children" /\ Misapplied(nodes, patches'[1]))
       => /\ thrown' # ""
          /\ nodes'[Element].children = nodes[Element].children]_vars

-----------------------------------------------------------------------------
(* Claims about League.calculate, checked under SpecLeague *)

\* the places or the points of the returned list, in its order
Column(items, field) == [i \in 1..Len(items) |-> items[i][field]]

\* C21: every player has the place 1 + the number of players with a strictly
\* higher score, so players of equal score share a place and the places
\* after a tie are skipped
C21_PlaceCountsHigherScores ==
  calculated =>
    \A j \in 1..Len(returned) :
      returned[j].place
        = 1 + Cardinality({i \in 1..Len(players) : players[i].score > returned[j].score})

\* a tie of two for the first place: 1, 1, 3, 4
C21_Witness ==
  calculated /\ Column(returned, "place") = <<1, 1, 3, 4>>

\* C22: for up to four players, every player has the points at index
\* place - 1 of the table, which are 5, 3, 1 or 0; tied players have the
\* points of the place they share
C22_PointsFromTable ==
  (calculated /\ Len(players) <= 4) =>
    \A j \in 1..Len(returned) :
      /\ returned[j].points = At(pointsTable, returned[j].place - 1)
      /\ returned[j].points \in {5, 3, 1, 0}

\* a tie of three behind the first: 5, 3, 3, 3
C22_Witness ==
  calculated /\ Column(returned, "points") = <<5, 3, 3, 3>>

\* C23: the returned list holds every player of the list once, name and
\* score unchanged, by descending score and, among equal scores, in the
\* order of the list; the list itself is as it was
C23_EveryPlayerOnceInOrder ==
  [][(~calculated /\ calculated') =>
       /\ players' = players
       /\ Len(returned') = Len(players)
       /\ \E at \in [1..Len(players) -> 1..Len(players)] :
            /\ \A i, j \in 1..Len(players) : i # j => at[i] # at[j]
            /\ \A j \in 1..Len(players) :
                 /\ returned'[j].name = players[at[j]].name
                 /\ returned'[j].score = players[at[j]].score
            /\ \A j, k \in 1..Len(players) :
                 j < k => \/ returned'[j].score > returned'[k].score
                          \/ /\ returned'[j].score = returned'[k].score
                             /\ at[j] < at[k]]_vars

\* two tied players behind a player that comes after them in the list
C23_Witness ==
  /\ calculated
  /\ Column(players, "name") = <<"A", "B", "C">>
  /\ Column(returned, "name") = <<"C", "A", "B">>

-----------------------------------------------------------------------------
(* Claims about the mode, the queue and the level of the Dispatcher *)

\* C24: once an update cycle of the root has ended, the dispatcher is in
\* execute mode; a child component with onDestroyed or onDetached that was
\* removed or replaced does not leave the root ignoring commands
C24_ExecuteModeAfterCycle ==
  (phase = "idle" /\ state.present) => mode = EXECUTE

\* C25: every command queued by a hook is executed: once the dispatcher has
\* come to rest, with no cycle running and no task scheduled, no command is
\* left in the queue
C25_QueuedCommandsAreExecuted == Quiescent => queue = <<>>

\* the hook that dispatches is invoked in queue mode: every hook but the
\* onAttached of the root
HookQueues == hooked # [hook |-> "onAttached", cls |-> "R"]

\* C26: commands dispatched one by one between the update cycles, whose
\* hooks queue one further command each, never raise 'Too many cycles'
C26_IndependentCommandsNeverRaise == HookQueues => thrown # TooManyCycles

\* C27: the throw of 'Too many cycles' leaves the level at zero, and the
\* command dispatched next, in execute mode, is executed: the state is set,
\* the diff is calculated and applied, and its wrapper does not throw again
C27_CommandAfterErrorExecutes ==
  [][/\ (raisedAt' # raisedAt) => level' = 0
     /\ (phase = "idle" /\ raisedAt = cycles /\ mode = EXECUTE /\ cycles' = cycles + 1)
          => /\ level = 0
             /\ state' \in Inputs
             /\ dropped' = dropped
             /\ \E diff \in {calculate(nodes, Root, state, state')} :
                  diff.error = "" => patches' = diff.patches
     /\ (raisedAt >= 0 /\ cycles' = raisedAt + 1) => raisedAt' = raisedAt]_vars

\* the command after the one that threw has been executed, and has left the
\* queue for a task
C27_Witness ==
  /\ raisedAt >= 0 /\ cycles = raisedAt + 1 /\ phase = "idle" /\ calls = <<>>
  /\ dropped = 0 /\ level = 1 /\ timers # <<>>

\* a call of the command wrapper that has executed its command returns: the
\* update cycle of the command ends, or there was nothing to patch
WrapperReturns ==
  \/ phase # "idle" /\ phase' = "idle" /\ Head(calls) = "wrapper"
  \/ /\ phase = "idle" /\ phase' = "idle" /\ mode = EXECUTE
     /\ cycles' # cycles /\ cascaded' = cascaded

\* at most one task was scheduled, for a batch that starts with the commands
\* the queue held, in the order of their dispatch
OneTaskScheduled ==
  \/ timers' = timers
  \/ /\ Len(timers') = Len(timers) + 1
     /\ SubSeq(timers', 1, Len(timers)) = timers
     /\ LET batch == timers'[Len(timers')]
        IN /\ batch # <<>>
           /\ Len(batch) >= Len(queue) /\ SubSeq(batch, 1, Len(queue)) = queue
           /\ \A i, j \in 1..Len(batch) : i < j => batch[i].id < batch[j].id

\* a task executes its next command: the first of the commands it has left,
\* after the commands executed before have been marked done
TaskStep ==
  LET task == IF pending # <<>> THEN pending ELSE Head(timers)
  IN /\ pending' = Tail(task)
     /\ state' = invoke(Head(task), state)
     /\ resolved = cascaded

\* the update cycle of a command executed by a task ends
TaskCommandDone ==
  \/ phase # "idle" /\ phase' = "idle" /\ calls = <<"flush">>
  \/ phase = "idle" /\ phase' = "idle" /\ cascaded' # cascaded

\* C28 as stated: whenever the wrapper has executed a command, the queue is
\* empty on its return and one task holds the commands that were left, which
\* the task executes in order, each marked done before the next
C28_QueueLeftIsFlushedOnce ==
  [][/\ WrapperReturns => (queue' = <<>> /\ OneTaskScheduled)
     /\ (cascaded' # cascaded) => TaskStep
     /\ TaskCommandDone => resolved' = cascaded']_vars

\* what the wrapper does: the same, unless it throws 'Too many cycles'; then
\* no task is scheduled and the commands stay in the queue
C28_QueueLeftIsFlushedOnceUnlessThrown ==
  [][/\ (WrapperReturns /\ raisedAt' = raisedAt) => (queue' = <<>> /\ OneTaskScheduled)
     /\ (WrapperReturns /\ raisedAt' # raisedAt) => (queue' # <<>> /\ timers' = timers)
     /\ (cascaded' # cascaded) => TaskStep
     /\ TaskCommandDone => resolved' = cascaded']_vars

\* a task of two commands has executed the first and marked it done
C28_Witness ==
  /\ phase = "idle" /\ pending # <<>> /\ cascaded > 0 /\ resolved = cascaded
  /\ pending[1].id = cascaded + 1

-----------------------------------------------------------------------------
(* Claims about the order of hooks and patches in an update cycle *)

BeforeHooks == {"onCreated", "onDestroyed", "onPropsReceived"}
AfterHooks == {"onAttached", "onDetached", "onUpdated"}

\* the number of patches applied before the event at a position of a log
AppliedBefore(events, i) ==
  Cardinality({j \in 1..(i - 1) : events[j].kind = "apply"})

\* C29: in an update cycle the hooks of beforeUpdate are invoked before the
\* first patch is applied, the patches are applied in the order of their
\* emission, and the hooks of afterUpdate are invoked after the last patch
\* was applied, for the patches in the reverse order of their emission
C29_BeforeThenApplyThenAfterReversed ==
  [][/\ \A i \in 1..Len(log') :
          /\ log'[i].kind = "apply" => log'[i].node = AppliedBefore(log', i) + 1
          /\ (log'[i].kind = "hook" /\ log'[i].hook \in BeforeHooks)
               => AppliedBefore(log', i) = 0
          /\ (log'[i].kind = "hook" /\ log'[i].hook \in AfterHooks)
               => AppliedBefore(log', i) = Len(patches')
     /\ phase = "before" =>
          SubSeq(log', Len(log) + 1, Len(log')) = beforePatchApplied(nodes, patches[idx + 1])
     /\ phase = "apply" => nodes' = applyPatch(nodes, patches[idx + 1])
     /\ phase = "after" =>
          SubSeq(log', Len(log) + 1, Len(log'))
            = afterPatchApplied(nodes, patches[Len(patches) - idx])]_vars

\* a finished cycle of three patches or more with hooks before and after
C29_Witness ==
  /\ phase = "idle" /\ Len(patches) >= 3
  /\ AppliedBefore(log, Len(log) + 1) = Len(patches)
  /\ \E i \in 1..Len(log) : log[i].kind = "hook" /\ log[i].hook \in BeforeHooks
  /\ \E i \in 1..Len(log) : log[i].kind = "hook" /\ log[i].hook = "onDetached"
  /\ \E i \in 1..Len(log) : log[i].kind = "hook" /\ log[i].hook = "onUpdated"

\* C30: when a component and a component below it are updated in one cycle,
\* onPropsReceived reaches the upper component before the lower one, and
\* onUpdated reaches the lower component before the upper one
C30_ReceivedDownUpdatedUp ==
  \A a \in 1..Len(nodes) : \A d \in ComponentsBelow(a) :
    /\ \A i \in Calls("onPropsReceived", a) : \A j \in Calls("onPropsReceived", d) : i < j
    /\ \A i \in Calls("onUpdated", a) : \A j \in Calls("onUpdated", d) : j < i

-----------------------------------------------------------------------------
(* Claims about nested roots, checked under SpecNested *)

\* the nested roots
NestedRoots == {n \in 2..Len(nodes) : isRoot(nodes[n])}

\* C31: the lifecycle pass of an update cycle of the parent tree invokes no
\* hook on a nested root
C31_ParentPassSkipsNestedRoots ==
  \A i \in 1..Len(log) : log[i].kind = "hook" => log[i].node \notin NestedRoots

-----------------------------------------------------------------------------
(* Further claims on the Reconciler, checked under SpecMoves *)

\* C32: when the list left by the removes and inserts is not the target, the
\* number of moves returned is the smaller of the numbers of moves of the
\* forward scan and of the reversed scan
C32_FewerAlignmentMovesChosen ==
  (pos >= 0 /\ Edited # target) =>
    Cardinality(MovesNamed(MOVE)) =
      IF Len(ForwardMoves) <= Len(ReversedMoves)
        THEN Len(ForwardMoves) ELSE Len(ReversedMoves)

C32_Witness ==
  /\ pos >= 0 /\ source = <<1, 2, 3>> /\ target = <<2, 3, 1>>
  /\ Len(ForwardMoves) = 2 /\ Len(ReversedMoves) = 1
  /\ moves = <<MoveMove(1, 0, 2)>>

-----------------------------------------------------------------------------
(* Claims on the children of an element, checked under SpecList *)

\* no child of the description has a key
Unkeyed(description) ==
  \A i \in 1..Len(description.children) : description.children[i].key = NoKey

\* the description the element has been diffed against, once patched
Target == nodes[Element].description

\* the patches of the cycle that insert, move or remove a child of the element
ListPatches ==
  LET Test(q) == q.type \in {INSERT_CHILD, MOVE_CHILD, REMOVE_CHILD} /\ q.parent = Element
  IN SelectSeq(patches, Test)

\* the number of nodes of the element as it was created: the children of a
\* list are the nodes 2, 3, ... when none of them is a component
Created == 1 + Len(origin.children)

\* C33: between two lists without keys the patches of the child list are the
\* removes of the trailing positions, highest first, or the inserts of the
\* trailing positions, ascending, and never a move; a position of both lists
\* keeps its node when the descriptions are compatible and has the
\* description of the target at that position
C33_UnkeyedListsAreDiffedByIndex ==
  (phase = "patched" /\ Unkeyed(origin) /\ Unkeyed(Target)) =>
    LET n == Len(origin.children)
        m == Len(Target.children)
        children == nodes[Element].children
    IN /\ Len(ListPatches) = IF m < n THEN n - m ELSE m - n
       /\ \A i \in 1..Len(ListPatches) :
            IF m < n
              THEN /\ ListPatches[i].type = REMOVE_CHILD
                   /\ ListPatches[i].at = n - i
                   /\ ListPatches[i].child = n - i + 2
              ELSE /\ ListPatches[i].type = INSERT_CHILD
                   /\ ListPatches[i].at = n + i - 1
                   /\ ListPatches[i].node > Created
       /\ Len(children) = m
       /\ \A k \in 1..m : nodes[children[k]].description = Target.children[k]
       /\ \A k \in 1..(IF m < n THEN m ELSE n) :
            IF isCompatible(origin.children[k], Target.children[k])
              THEN children[k] = k + 1
              ELSE children[k] > Created

C33_Witness ==
  /\ phase = "patched" /\ Unkeyed(origin) /\ Unkeyed(Target)
  /\ Len(origin.children) = 3 /\ Len(Target.children) = 1
  /\ origin.children[1].class = "" /\ Target.children[1].class = "c"
  /\ Len(ListPatches) = 2 /\ nodes[Element].children = <<2>>


\* the heap of the element as it was created
Original == createFromDescription(NewDiff(<<>>), origin, NoNode).nodes

\* the keys of the children of a description: child.key || createKey(index)
KeysOf(description) ==
  [k \in 1..Len(description.children) |-> KeyOr(description.children[k].key, k - 1)]

\* the child list of the element carries the keys of the target in the order
\* of the target, a key of the target alone is on a node created by the
\* cycle, and every child has the description of the target at its position
CarriesTarget ==
  LET children == nodes[Element].children
  IN /\ [k \in 1..Len(children) |-> KeyOr(nodes[children[k]].key, k - 1)] = KeysOf(Target)
     /\ \A k \in 1..Len(children) :
          /\ nodes[children[k]].description = Target.children[k]
          /\ ~Includes(KeysOf(origin), KeysOf(Target)[k]) => children[k] > Len(Original)

\* the child of the element that had the key when the element was created
Former(key) == Original[Element].children[IndexOf(KeysOf(origin), key) + 1]

\* C34 as stated: after the patches the child list carries the target, and a
\* child whose key is in both lists is the node it was
C34_ChildListCarriesTarget ==
  phase = "patched" =>
    /\ CarriesTarget
    /\ \A k \in 1..Len(Target.children) :
         Includes(KeysOf(origin), KeysOf(Target)[k])
           => nodes[Element].children[k] = Former(KeysOf(Target)[k])

\* C34 as the code has it: after the patches the child list carries the
\* target; a child whose key is in both lists is the node it was when the
\* two descriptions of the key are compatible, and a node created by the
\* cycle when they are not
C34_ChildListCarriesTargetOnCompatibleNodes ==
  phase = "patched" =>
    /\ CarriesTarget
    /\ \A k \in 1..Len(Target.children) :
         Includes(KeysOf(origin), KeysOf(Target)[k])
           => IF isCompatible(Original[Former(KeysOf(Target)[k])].description,
                              Target.children[k])
                THEN nodes[Element].children[k] = Former(KeysOf(Target)[k])
                ELSE nodes[Element].children[k] > Len(Original)

C34_Witness ==
  /\ phase = "patched"
  /\ \E i, j \in 1..Len(patches) :
       patches[i].type = INSERT_CHILD /\ patches[j].type = MOVE_CHILD
  /\ \E k \in 1..Len(Target.children) :
       /\ Includes(KeysOf(origin), KeysOf(Target)[k])
       /\ nodes[Element].children[k] = Former(KeysOf(Target)[k])
       /\ Original[Former(KeysOf(Target)[k])].description # Target.children[k]
  /\ CarriesTarget

-----------------------------------------------------------------------------
(* Claims about a hook that throws, checked under SpecThrow *)

\* the step in which the update cycle in progress ends at a hook that throws
HookThrows ==
  /\ phase \in {"before", "after"} /\ phase' = "idle"
  /\ Len(log') > Len(log) /\ Throws(nodes', log'[Len(log')])

-----------------------------------------------------------------------------
(* Further claims about the patches of an element, checked under SpecElement *)

\* the two diffs of listeners of an element
ListenerDiffs == {m \in MapDiffs(origin, Second) : m.identity}

\* the patches a listener diff has emitted for an event name
PatchesFor(m, k) ==
  {PatchesOf(m)[i] : i \in {j \in 1..Len(PatchesOf(m)) : PatchesOf(m)[j].name = k}}

\* C36: a listener under the same event name in both descriptions yields a
\* replace-listener patch, which carries the old and the new function, if
\* and only if the two functions differ and either their recorded sources
\* differ or neither records a source; otherwise, as for two bound wrappers
\* of the same source, the name yields no patch
C36_ReplaceListenerOnOtherSource ==
  (phase = "element" /\ cycles = 1) =>
    \A m \in ListenerDiffs :
      \A k \in SharedKeys(m) :
        LET a == Get(m.current, k)
            b == Get(m.next, k)
        IN IF /\ a # b
              /\ \/ sourceOf(a) # sourceOf(b)
                 \/ sourceOf(a) = Undefined /\ sourceOf(b) = Undefined
             THEN /\ Cardinality(PatchesFor(m, k)) = 1
                  /\ \A q \in PatchesFor(m, k) :
                       q.type = "replace-listener" /\ q.removed = a /\ q.value = b
             ELSE PatchesFor(m, k) = {}

\* one listener diff has passed over two wrappers of one source and the
\* other has replaced a wrapper by the wrapper of another source
C36_Witness ==
  /\ phase = "element" /\ cycles = 1
  /\ \E m \in ListenerDiffs :
       \E k \in SharedKeys(m) :
         /\ Get(m.current, k) # Get(m.next, k)
         /\ sourceOf(Get(m.current, k)) # Undefined
         /\ sourceOf(Get(m.current, k)) = sourceOf(Get(m.next, k))
         /\ PatchesFor(m, k) = {}
  /\ \E m \in ListenerDiffs :
       \E k \in SharedKeys(m) :
         /\ sourceOf(Get(m.current, k)) # Undefined
         /\ sourceOf(Get(m.next, k)) # Undefined
         /\ PatchesFor(m, k) # {}

-----------------------------------------------------------------------------
(* Claims about the listeners of an element, checked under SpecListeners *)

\* the listener is registered on the DOM element under the event
Attached(ref, event, listener) == [key |-> event, value |-> listener] \in ref.listeners

\* the two functions are one listener of the application: the same
\* function, or two wrappers of one source
SameListener(a, b) ==
  a = b \/ (sourceOf(a) # Undefined /\ sourceOf(a) = sourceOf(b))

\* the description gives the listener for the event, as a standard listener
\* or as a custom one
Described(description, event, listener) ==
  \/ \E i \in 1..Len(description.listeners) :
       /\ getEventName(description.listeners[i].key) = event
       /\ SameListener(description.listeners[i].value, listener)
  \/ \E i \in 1..Len(description.custom.listeners) :
       /\ description.custom.listeners[i].key = event
       /\ SameListener(description.custom.listeners[i].value, listener)

\* the event a listener patch names
EventOf(q) == IF q.isCustom THEN q.name ELSE getEventName(q.name)

\* C37: through any series of update cycles every remove-listener and
\* replace-listener patch takes off the function that is attached, and a
\* listener that the description no longer gives is no longer attached to
\* the DOM element, also after cycles in which the wrapper has changed and
\* its source has not
C37_DroppedListenersAreDetached ==
  [][phase = "element" =>
       /\ \A i \in 1..Len(patches') :
            patches'[i].type \in {"remove-listener", "replace-listener"} =>
              Attached(nodes[Element].ref, EventOf(patches'[i]), patches'[i].removed)
       /\ \A r \in nodes'[Element].ref.listeners :
            Described(nodes'[Element].description, r.key, r.value)]_vars

-----------------------------------------------------------------------------
(* Claims about the DOM below an element, checked under SpecList *)

\* the handles of the virtual children of a node, in their order
Handles(heap, node) ==
  [i \in 1..Len(heap[node].children) |-> domOf(heap, heap[node].children[i])]

\* C38: after every applied insert-child, move-child, replace-child and
\* remove-child patch the child nodes of the DOM element are, in order, the
\* handles of the virtual children of the element, also when texts and
\* comments are among the children
C38_DomOrderFollowsChildren ==
  \A n \in Subtree(nodes, Element) :
    isElement(nodes[n]) => nodes[n].ref.childNodes = Handles(nodes, n)

-----------------------------------------------------------------------------
(* Claims about the module loader, checked under SpecLoader *)

\* the call of preload has returned or thrown; a call that returned the
\* stored load promise settles with that promise
HasSettled(call) ==
  \/ call.pc \in {"returned", "thrown"}
  \/ call.pc = "shared" /\ loadPromises[call.id] \in {"fulfilled", "rejected"}

\* the call of preload can go on: the promise it awaits is resolved, or its
\* load is under way
GoesOn(call) ==
  \/ call.pc = "loading"
  \/ call.pc = "waiting" /\ call.awaits \in released
  \/ call.pc = "shared" /\ \E j \in 1..Len(preloads) :
                             preloads[j].id = call.id /\ preloads[j].pc = "loading"

\* C39: every call of loader.preload settles in the end, and once it has
\* settled the loader is released for the calls after it: a call that has
\* waited for the loader has resolved the promise it left in loader.ready,
\* also when its module was loaded already as a dependency or its load has
\* failed, and while a call has not settled some call can go on
C39_SettledPreloadReleasesLoader ==
  /\ \A i \in 1..Len(preloads) :
       (HasSettled(preloads[i]) /\ preloads[i].pc # "shared") =>
         preloads[i].done \in released
  /\ (\E i \in 1..Len(preloads) : ~HasSettled(preloads[i])) =>
       \E i \in 1..Len(preloads) : GoesOn(preloads[i])

-----------------------------------------------------------------------------
(* Claims about the tokens of the server, checked under SpecTokens *)

\* the calls of getUserByToken for the token, as indices in SELECT order
LookupsOf(list, token) == {i \in 1..Len(list) : list[i].token = token}

\* C40: getUserByToken accepts a token exactly when a row of the token
\* exists whose last_used_on is less than one hour old; an accepted lookup
\* sets last_used_on to the current time and a rejected one changes
\* nothing, so that a token used at intervals under one hour is accepted
\* every time, and a token rejected for inactivity is rejected by every
\* later lookup
C40_TokenExpiresAfterAnIdleHour ==
  [][/\ \A i \in 1..Len(lookups') :
          lookups'[i].accepted <=>
            (lookups'[i].last # Undefined /\ lookups'[i].at - lookups'[i].last < Hour)
     /\ \A i \in 1..Len(lookups) :
          (lookups[i].pc = "update" /\ lookups'[i].pc = "done") =>
            rows'[lookups[i].token] = clock'
     /\ (Len(lookups') > Len(lookups) /\ ~lookups'[Len(lookups')].accepted) =>
          rows' = rows
     /\ \A i, j \in 1..Len(lookups') :
          (/\ i < j /\ lookups'[i].token = lookups'[j].token
           /\ LookupsOf(lookups', lookups'[i].token) \cap (i + 1)..(j - 1) = {}
           /\ lookups'[i].accepted
           /\ lookups'[j].at - lookups'[i].at < Hour) => lookups'[j].accepted
     /\ \A i, j \in 1..Len(lookups') :
          (/\ i < j /\ lookups'[i].token = lookups'[j].token
           /\ lookups'[i].last # Undefined /\ ~lookups'[i].accepted)
            => ~lookups'[j].accepted]_vars

====
